---- MODULE Spec2Model ----
(***************************************************************************)
(* Model of the jstorrent I/O daemon (native-host/io-daemon): the HTTP     *)
(* auth middleware, validate_path and the file/hash endpoints built on it, *)
(* the config reload, the file-hash loop, and the WebSocket multiplexer    *)
(* (handle_socket); and of the native messaging host (system-bridge/host): *)
(* the discovery file rpc-info.json and the stdin/stdout message framing.  *)
(*                                                                         *)
(* Strings are sequences of one-character strings.  Each subsystem has its *)
(* own specification (SpecPath, SpecAuth, SpecWs, ...); the variables of   *)
(* the other subsystems stay at their initial value.                       *)
(***************************************************************************)
EXTENDS Integers, Sequences, FiniteSets, TLC

VARIABLES
    windows,      \* the build target: TRUE for a Windows build (std::path semantics)
    roots,        \* AppState.download_roots: sequence of [key, path]
    fileOp,       \* the last file/hash request and what its handler did
    mw,           \* the last HTTP request seen by auth::middleware and its outcome
    procAlive,    \* FALSE once /control/shutdown has called process::exit
    handled,      \* number of handler invocations (next.run) so far
    rpcFile,      \* the discovery file rpc-info.json as load_config finds it
    \* ---- one WebSocket session (ws.rs: handle_socket) ----
    authenticated,     \* the local `authenticated`
    dpc,               \* where the receive loop is: "recv", "reg_connect",
                       \* "tcp_send", "cleanup", "ended"
    darg,              \* the connect task / connection the receive loop is busy with
    lastIn,            \* the frame the receive loop handled last, while unauthenticated
    out,               \* the outbound channel `tx`/`rx` (mpsc::channel(100))
    rxOpen,            \* the receiver `rx` is alive (send_task neither ended nor aborted)
    tcp_sockets,       \* SocketManager.tcp_sockets: socket id -> connection (0: absent)
    pending_connects,  \* SocketManager.pending_connects: socket id -> connect task
    tcp_servers,       \* SocketManager.tcp_servers: server id -> listen task
    udp_sockets,       \* SocketManager.udp_sockets: socket id -> UDP socket
    next_socket_id,    \* SocketManager.next_socket_id
    ct,                \* the connect tasks spawned by TCP_CONNECT
    conn,              \* the established TCP streams with their read and write tasks
    lt,                \* the listen tasks spawned by TCP_LISTEN, with their accept loops
    ut,                \* the bind tasks spawned by UDP_BIND, with their recv loops
    family,            \* the socket family this session's client uses
    \* ---- the WebSocket connections of the daemon, side by side ----
    sessions,          \* per connection: its channel, its wire and its socket tasks
    \* ---- a config reload next to a file operation ----
    swap,              \* the RwLock around download_roots, refresh_handler's and the
                       \* file operation's position, the tables before and after
    \* ---- POST /write and GET /read on one file ----
    disk,              \* the file, the write handler, its write in the blocking pool,
                       \* the read handler
    \* ---- the native messaging host: rpc-info.json writes, stdin/stdout framing ----
    host,              \* the host processes, the last write_discovery_file call,
                       \* the message pipe
    \* ---- GET /hash/sha1|sha256/{path}: one file-hash request ----
    hashing            \* the request, the file cursor and what was fed to the hasher

httpVars == <<windows, roots, fileOp, mw, procAlive, handled, rpcFile>>

wsVars == <<authenticated, dpc, darg, lastIn, out, rxOpen, tcp_sockets,
            pending_connects, tcp_servers, udp_sockets, next_socket_id,
            ct, conn, lt, ut, family, sessions, swap, disk, host, hashing>>

vars == <<windows, roots, fileOp, mw, procAlive, handled, rpcFile,
          authenticated, dpc, darg, lastIn, out, rxOpen, tcp_sockets,
          pending_connects, tcp_servers, udp_sockets, next_socket_id,
          ct, conn, lt, ut, family, sessions, swap, disk, host, hashing>>

(***************************************************************************)
(* Bounds                                                                  *)
(***************************************************************************)
MaxPathLen == 3      \* longest request path, in characters
MaxHdrLen == 2       \* longest header value, in symbols
MaxAuthLen == 3      \* longest AUTH payload after the authType byte, in bytes
MaxReq == 1          \* request ids 1..MaxReq
MaxTcpId == 2        \* client-chosen TCP socket ids 1..MaxTcpId
MaxConnects == 2     \* TCP_CONNECT requests per session
MaxListens == 2      \* TCP_LISTEN requests per session
MaxAccepts == 2      \* connections accepted per session
MaxUdpBinds == 1     \* UDP_BIND requests per session
OutCap == 1          \* capacity of the outbound channel (100 in the code)
WriteCap == 1        \* capacity of a per-socket write channel (32 in the code)
MaxData == 2         \* chunks followed per direction of a stream
MaxSessions == 2     \* WebSocket connections the daemon serves, side by side or in turn
MaxWire == 2         \* frames followed on the wire of one connection
MaxBody == 2         \* longest request body and longest initial file, in bytes
MaxOff == 1          \* largest X-Offset of a write
MaxPid == 2          \* process ids the operating system hands out, and reuses
MaxProfiles == 3     \* entries rpc-info.json may hold
MaxStarts == 3       \* host processes started in all
MaxMsgs == 2         \* messages written to one pipe
MaxChunks == 2       \* whole buffers in the longest file hashed
ShortRead == 4096    \* bytes a read returns when it returns fewer than asked

(***************************************************************************)
(* Strings                                                                 *)
(***************************************************************************)
RECURSIVE SeqsUpTo(_, _)
SeqsUpTo(S, n) ==
    IF n = 0 THEN {<< >>}
    ELSE LET shorter == SeqsUpTo(S, n - 1)
         IN  shorter \cup {Append(s, c) : s \in shorter, c \in S}

IsPrefix(p, s) == Len(p) <= Len(s) /\ SubSeq(s, 1, Len(p)) = p

\* str::contains(needle)
Contains(s, needle) ==
    \E i \in 1..(Len(s) - Len(needle) + 1) :
        SubSeq(s, i, i + Len(needle) - 1) = needle

\* str::replace('\\', "/")
ReplaceBackslash(s) == [i \in 1..Len(s) |-> IF s[i] = "\\" THEN "/" ELSE s[i]]

\* str::trim_start_matches('/')
RECURSIVE TrimStartSlashes(_)
TrimStartSlashes(s) ==
    IF s # << >> /\ Head(s) = "/" THEN TrimStartSlashes(Tail(s)) ELSE s

(***************************************************************************)
(* std::path::PathBuf::join.  A path that is absolute (or, on Windows,     *)
(* carries a drive prefix) replaces the base; a relative one is appended   *)
(* after a separator.                                                      *)
(***************************************************************************)
Letters == {"a", "c", "r"}

HasDrivePrefix(p) == Len(p) >= 2 /\ p[1] \in Letters /\ p[2] = ":"

IsSeparator(c, win) == c = "/" \/ (win /\ c = "\\")

HasRoot(p, win) == p # << >> /\ IsSeparator(p[1], win)

PathJoin(base, p, win) ==
    IF win /\ HasDrivePrefix(p) THEN p
    ELSE IF HasRoot(p, win) THEN
        (IF win /\ HasDrivePrefix(base) THEN SubSeq(base, 1, 2) \o p ELSE p)
    ELSE IF base # << >> /\ IsSeparator(base[Len(base)], win) THEN base \o p
    ELSE base \o <<"/">> \o p

(***************************************************************************)
(* files.rs: validate_path                                                 *)
(***************************************************************************)
Ok(p) == [ok |-> TRUE, path |-> p, status |-> 200]
Err(code) == [ok |-> FALSE, path |-> << >>, status |-> code]

\* roots.iter().find(|r| r.key == root_key)
FindRoot(rs, root_key) ==
    LET hits == {i \in 1..Len(rs) : rs[i].key = root_key}
    IN  IF hits = {} THEN 0
        ELSE CHOOSE i \in hits : \A j \in hits : i <= j

RejectsTraversal(path) == Contains(path, <<".", ".">>)

CleanPath(path) == TrimStartSlashes(ReplaceBackslash(path))

\* variant: the ".." check comes before the root lookup
validate_path_traversal_first(rs, root_key, path, win) ==
    LET i == FindRoot(rs, root_key)
    IN  IF RejectsTraversal(path) THEN Err(400)
        ELSE IF i = 0 THEN Err(403)
        ELSE Ok(PathJoin(rs[i].path, CleanPath(path), win))

validate_path(rs, root_key, path, win) ==
    LET i == FindRoot(rs, root_key)
    IN  IF i = 0 THEN Err(403)
        ELSE IF RejectsTraversal(path) THEN Err(400)
        ELSE Ok(PathJoin(rs[i].path, CleanPath(path), win))

(***************************************************************************)
(* ws.rs: opcodes, frames and the initial state of a session               *)
(***************************************************************************)
OP_CLIENT_HELLO == 1
OP_SERVER_HELLO == 2
OP_AUTH == 3
OP_AUTH_RESULT == 4
OP_ERROR == 127
OP_TCP_CONNECT == 16
OP_TCP_CONNECTED == 17
OP_TCP_SEND == 18
OP_TCP_RECV == 19
OP_TCP_CLOSE == 20
OP_TCP_LISTEN == 21
OP_TCP_LISTEN_RESULT == 22
OP_TCP_ACCEPT == 23
OP_TCP_STOP_LISTEN == 24
OP_UDP_BIND == 32
OP_UDP_BOUND == 33
OP_UDP_SEND == 34
OP_UDP_RECV == 35
OP_UDP_CLOSE == 36
OP_UDP_JOIN_MULTICAST == 37
OP_UDP_LEAVE_MULTICAST == 38
PROTOCOL_VERSION == 1
FirstAcceptedId == 65536    \* next_socket_id: 0x10000

ReqIds == 1..MaxReq
TcpIds == 1..MaxTcpId
ServerIds == {1}
UdpIds == {1}
AcceptedIds == FirstAcceptedId..(FirstAcceptedId + MaxAccepts - 1)
SocketIds == TcpIds \cup AcceptedIds
ConnectTasks == 1..MaxConnects
ListenTasks == 1..MaxListens
UdpTasks == 1..MaxUdpBinds
\* a stream is named by what produced it: connect task k is stream k,
\* the n-th accepted connection is stream MaxConnects + n
Streams == 1..(MaxConnects + MaxAccepts)

\* Envelope::new(msg_type, request_id) followed by the payload fields
Frame(op, req, id, st, errno, msg) ==
    [op |-> op, req |-> req, id |-> id, st |-> st, errno |-> errno, msg |-> msg]

NoFrameIn == [n |-> 0, version |-> 0, op |-> 0, req |-> 0, atype |-> 0, data |-> << >>]

NoConnectTask == [pc |-> "unused", sid |-> 0, req |-> 0, aborted |-> FALSE, emitted |-> 0]
\* a stream with its tasks and channel; buf is the chunk the read task holds,
\* pend the payload the receive loop holds while sender.send waits; got, fwd,
\* sent and wrote list the chunks read, forwarded as TCP_RECV, taken from
\* TCP_SEND and written (kept in the "stream" family only)
NoStream ==
    [rd |-> "none", wr |-> "none", wq |-> << >>, sid |-> 0, buf |-> "", pend |-> "",
     got |-> << >>, fwd |-> << >>, sent |-> << >>, wrote |-> << >>, shut |-> FALSE]
NoListenTask ==
    [pc |-> "unused", sid |-> 0, req |-> 0,
     al |-> "none", aborted |-> FALSE, cur |-> 0]
NoUdpTask == [pc |-> "unused", sid |-> 0, req |-> 0, ur |-> "none"]

\* a connection that was not upgraded yet: no channel, no task
NoSessions ==
    [s \in 1..MaxSessions |->
        [st |-> "idle", chan |-> << >>, wire |-> << >>, socks |-> {}]]

\* a client works with one family of sockets in a session: outbound connections,
\* listeners, a UDP socket, one outbound connection whose bytes are followed
\* ("stream"), or one listener next to one outbound connection ("mixed")
Families == {"tcp", "listen", "udp", "stream", "mixed"}

\* the state handle_socket sets up before its receive loop
WsFresh ==
    /\ authenticated = FALSE
    /\ dpc = "recv"
    /\ darg = 0
    /\ lastIn = NoFrameIn
    /\ out = << >>
    /\ rxOpen = TRUE
    /\ tcp_sockets = [s \in SocketIds |-> 0]
    /\ pending_connects = [s \in SocketIds |-> 0]
    /\ tcp_servers = [s \in ServerIds |-> 0]
    /\ udp_sockets = [s \in UdpIds |-> 0]
    /\ next_socket_id = FirstAcceptedId
    /\ ct = [k \in ConnectTasks |-> NoConnectTask]
    /\ conn = [c \in Streams |-> NoStream]
    /\ lt = [j \in ListenTasks |-> NoListenTask]
    /\ ut = [u \in UdpTasks |-> NoUdpTask]
    /\ family \in Families
    /\ sessions = NoSessions

\* no session: the value the session variables keep in the HTTP specifications
WsIdle ==
    /\ authenticated = FALSE
    /\ dpc = "ended"
    /\ darg = 0
    /\ lastIn = NoFrameIn
    /\ out = << >>
    /\ rxOpen = FALSE
    /\ tcp_sockets = [s \in SocketIds |-> 0]
    /\ pending_connects = [s \in SocketIds |-> 0]
    /\ tcp_servers = [s \in ServerIds |-> 0]
    /\ udp_sockets = [s \in UdpIds |-> 0]
    /\ next_socket_id = FirstAcceptedId
    /\ ct = [k \in ConnectTasks |-> NoConnectTask]
    /\ conn = [c \in Streams |-> NoStream]
    /\ lt = [j \in ListenTasks |-> NoListenTask]
    /\ ut = [u \in UdpTasks |-> NoUdpTask]
    /\ family = "none"
    /\ sessions = NoSessions

(***************************************************************************)
(* File and hash endpoints (files.rs, hashing.rs).  The v2 endpoints take  *)
(* the path from the X-Path-Base64 header and answer 400 before            *)
(* validate_path when it is missing or undecodable; the others take it     *)
(* from the URL, the query or the JSON body.  Every handler touches the    *)
(* filesystem only with the path validate_path returned.                   *)
(***************************************************************************)
PathChars == {"a", ".", "/", "\\", ":"}
Paths == SeqsUpTo(PathChars, MaxPathLen)
RootKeys == {"A", "B", "Z"}

HeaderPathEndpoints == {"/read/:root_key", "/write/:root_key"}
PlainPathEndpoints ==
    {"/files/*path", "/files/ensure_dir", "/ops/stat", "/ops/list",
     "/ops/delete", "/ops/truncate", "/hash/sha1/*path", "/hash/sha256/*path"}

\* what the filesystem may answer once the handler reaches it
FsStatuses == {200, 404, 500}

RootPath(win, name) ==
    IF win THEN <<"c", ":", "/", name>> ELSE <<"/", name>>

RootTables(win) ==
    { << >>,
      << [key |-> "A", path |-> RootPath(win, "r")] >>,
      << [key |-> "A", path |-> RootPath(win, "r")],
         [key |-> "B", path |-> RootPath(win, "c")] >> }

NoFileOp ==
    [ep |-> "none", key |-> "", hdr |-> "none", path |-> << >>,
     status |-> 0, fs |-> FALSE, full |-> << >>]

\* the part of every handler after the path is known
HandleWithPath(ep, root_key, hdr, path, fsStatus) ==
    LET v == validate_path(roots, root_key, path, windows)
    IN  [ep |-> ep, key |-> root_key, hdr |-> hdr, path |-> path,
         status |-> IF v.ok THEN fsStatus ELSE v.status,
         fs |-> v.ok, full |-> v.path]

\* extract_path_from_header
extract_path_from_header(hdr) == IF hdr = "ok" THEN 200 ELSE 400

\* read_file_v2, write_file_v2
HeaderPathRequest ==
    /\ fileOp.ep = "none"
    /\ \E ep \in HeaderPathEndpoints, k \in RootKeys,
          hdr \in {"ok", "missing", "invalid"}, p \in Paths, st \in FsStatuses :
        /\ hdr # "ok" => p = << >>
        /\ fileOp' =
              IF extract_path_from_header(hdr) # 200
              THEN [ep |-> ep, key |-> k, hdr |-> hdr, path |-> << >>,
                    status |-> 400, fs |-> FALSE, full |-> << >>]
              ELSE HandleWithPath(ep, k, hdr, p, st)
        /\ UNCHANGED <<windows, roots, mw, procAlive, handled, rpcFile>>
        /\ UNCHANGED wsVars

\* ensure_dir, stat_file, list_dir, delete_file, truncate_file,
\* hash_sha1_file, hash_sha256_file and the deprecated /files/*path pair
PlainPathRequest ==
    /\ fileOp.ep = "none"
    /\ \E ep \in PlainPathEndpoints, k \in RootKeys, p \in Paths, st \in FsStatuses :
        /\ fileOp' = HandleWithPath(ep, k, "ok", p, st)
        /\ UNCHANGED <<windows, roots, mw, procAlive, handled, rpcFile>>
        /\ UNCHANGED wsVars

NoRpcFile == [state |-> "missing", profiles |-> << >>]

\* no host process running, no call made, nothing in the pipe
NotRunning == [inst |-> << >>, ext |-> [some |-> FALSE, v |-> << >>], shaken |-> FALSE]
NoCall ==
    [kind |-> "none", pid |-> 0, install_id |-> [some |-> FALSE, v |-> << >>],
     download_roots |-> [some |-> FALSE, v |-> << >>], before |-> << >>,
     found |-> 0, ret |-> << >>]
\* an open pipe, nothing written, nothing read
NoPipe ==
    [bytes |-> << >>, open |-> TRUE, torn |-> FALSE, sent |-> << >>,
     got |-> << >>, rd |-> "reading"]
NoHost ==
    [procs |-> [p \in 1..MaxPid |-> NotRunning], starts |-> 0, last |-> NoCall,
     pipe |-> NoPipe]

\* no hash request yet
NoHashing ==
    [st |-> "idle", exists |-> FALSE, size |-> 0,
     offset |-> [some |-> FALSE, v |-> 0], length |-> [some |-> FALSE, v |-> 0],
     pos |-> 0, remaining |-> [top |-> FALSE, v |-> 0],
     first |-> 0, count |-> 0, contiguous |-> TRUE, maxn |-> 0]

\* an absent file, no request yet
NoDisk ==
    [exists |-> FALSE, file |-> << >>, init |-> << >>, bg |-> "none",
     w |-> [pc |-> "idle", off |-> 0, body |-> << >>,
                 hdr |-> [hex |-> "absent", of |-> << >>], status |-> 0],
     r |-> [pc |-> "idle", off |-> -1, len |-> -1, status |-> 0, data |-> << >>,
            after |-> FALSE]]

\* no reload and no file operation under way, the lock free
NoSwap ==
    [lock |-> "free", rpc |-> "idle", fpc |-> "idle", old |-> << >>, new |-> << >>,
     key |-> "", path |-> << >>]

NoMw ==
    [ep |-> "none", xauth |-> << >>, authz |-> << >>, hasX |-> FALSE,
     hasA |-> FALSE, handler |-> FALSE, status |-> 0]

InitPath ==
    /\ windows \in BOOLEAN
    /\ roots \in RootTables(windows)
    /\ fileOp = NoFileOp
    /\ mw = NoMw
    /\ procAlive = TRUE
    /\ handled = 0
    /\ rpcFile = NoRpcFile
    /\ WsIdle
    /\ swap = NoSwap
    /\ disk = NoDisk
    /\ host = NoHost
    /\ hashing = NoHashing

NextPath == HeaderPathRequest \/ PlainPathRequest

SpecPath == InitPath /\ [][NextPath]_vars

(***************************************************************************)
(* Claims about validate_path                                              *)
(***************************************************************************)
RECURSIVE SplitOn(_, _, _)
\* the components of s: maximal runs without a separator
SplitOn(s, win, cur) ==
    IF s = << >> THEN (IF cur = << >> THEN << >> ELSE <<cur>>)
    ELSE IF IsSeparator(Head(s), win)
         THEN (IF cur = << >> THEN << >> ELSE <<cur>>) \o SplitOn(Tail(s), win, << >>)
         ELSE SplitOn(Tail(s), win, Append(cur, Head(s)))

Beneath(full, root, win) ==
    /\ \/ full = root
       \/ IsPrefix(root \o <<"/">>, full)
    /\ LET rest == SplitOn(SubSeq(full, Len(root) + 1, Len(full)), win, << >>)
       IN  \A i \in 1..Len(rest) : rest[i] # <<".", ".">>

KeyPresent(k) == \E i \in 1..Len(roots) : roots[i].key = k

\* C3: every path validate_path returns for root key k, and with which a
\* handler touches the filesystem, lies beneath roots[k].path.
C3_AcceptedPathBeneathRoot ==
    fileOp.fs =>
        \E i \in 1..Len(roots) :
            /\ roots[i].key = fileOp.key
            /\ Beneath(fileOp.full, roots[i].path, windows)

HdrSyms == {"Bearer ", "tok", "bad", "0x80"}
HdrValues == SeqsUpTo(HdrSyms, MaxHdrLen)
ProcessToken == <<"tok">>
InstallId == "I1"

None == [some |-> FALSE, v |-> << >>]
Some(x) == [some |-> TRUE, v |-> x]

\* HeaderValue::to_str().ok()
to_str(present, value) ==
    IF present /\ \A i \in 1..Len(value) : value[i] # "0x80"
    THEN Some(value) ELSE None

\* variant: the Authorization value is taken whole, scheme prefix or not
strip_prefix_optional(o) ==
    IF o.some /\ o.v # << >> /\ Head(o.v) = "Bearer " THEN Some(Tail(o.v)) ELSE o

\* str::strip_prefix("Bearer ")
strip_prefix_bearer(o) ==
    IF o.some /\ o.v # << >> /\ Head(o.v) = "Bearer " THEN Some(Tail(o.v)) ELSE None

ExemptPaths == {"/health", "/io"}

middleware(ep, hasX, x, hasA, a) ==
    LET fromX == to_str(hasX, x)
        token == IF fromX.some THEN fromX
                 ELSE strip_prefix_bearer(to_str(hasA, a))
        pass  == ep \in ExemptPaths \/ (token.some /\ token.v = ProcessToken)
    IN  [ep |-> ep, xauth |-> x, authz |-> a, hasX |-> hasX, hasA |-> hasA,
         handler |-> pass, status |-> IF pass THEN 200 ELSE 401]

\* variant: a file without the daemon's profile yields an empty table
load_or_empty(file, install_id) ==
    IF file.state # "ok" THEN Err(500)
    ELSE [ok |-> TRUE, status |-> 200, path |-> << >>]

\* config.rs: load_config
load_config(file, install_id) ==
    IF file.state # "ok" THEN Err(500)
    ELSE LET hits == {i \in 1..Len(file.profiles) :
                          file.profiles[i].install_id = install_id}
         IN  IF hits = {} THEN Err(500)
             ELSE [ok |-> TRUE, status |-> 200,
                   path |-> file.profiles[CHOOSE i \in hits :
                                \A j \in hits : i <= j].download_roots]

RpcFiles(win) ==
    { NoRpcFile,
      [state |-> "corrupt", profiles |-> << >>],
      [state |-> "ok",
       profiles |-> << [install_id |-> "I2", download_roots |-> << >>] >>],
      [state |-> "ok",
       profiles |-> << [install_id |-> "I2", download_roots |-> << >>],
                       [install_id |-> InstallId,
                        download_roots |->
                            << [key |-> "B", path |-> RootPath(win, "c")] >>] >>] }

\* the handler behind the middleware (next.run)
RunHandler(ep) ==
    /\ handled' = handled + 1
    /\ CASE ep = "/control/shutdown" ->
              procAlive' = FALSE /\ UNCHANGED roots
         [] ep = "/api/read-rpc-info-from-disk" ->
              LET r == load_config(rpcFile, InstallId)
              IN  /\ roots' = IF r.ok THEN r.path ELSE roots
                  /\ UNCHANGED procAlive
         [] OTHER -> UNCHANGED <<roots, procAlive>>

Serve(ep) ==
    /\ mw.ep = "none"
    /\ procAlive
    /\ \E hasX \in BOOLEAN, hasA \in BOOLEAN, x \in HdrValues, a \in HdrValues :
        /\ ~hasX => x = << >>
        /\ ~hasA => a = << >>
        /\ mw' = middleware(ep, hasX, x, hasA, a)
        /\ IF mw'.handler THEN RunHandler(ep)
           ELSE UNCHANGED <<roots, procAlive, handled>>
    /\ UNCHANGED <<windows, fileOp, rpcFile>>
    /\ UNCHANGED wsVars

HealthRequest == Serve("/health")
IoUpgradeRequest == Serve("/io")
PingRequest == Serve("/control/ping")
ShutdownRequest == Serve("/control/shutdown")
RefreshRequest == Serve("/api/read-rpc-info-from-disk")
FileRequest == \E ep \in HeaderPathEndpoints \cup PlainPathEndpoints : Serve(ep)
HashBytesRequest == Serve("/hash/sha1")

InitAuth ==
    /\ windows = FALSE
    /\ roots \in RootTables(windows)
    /\ fileOp = NoFileOp
    /\ mw = NoMw
    /\ procAlive = TRUE
    /\ handled = 0
    /\ rpcFile \in RpcFiles(windows)
    /\ WsIdle
    /\ swap = NoSwap
    /\ disk = NoDisk
    /\ host = NoHost
    /\ hashing = NoHashing

NextAuth ==
    \/ HealthRequest
    \/ IoUpgradeRequest
    \/ PingRequest
    \/ ShutdownRequest
    \/ RefreshRequest
    \/ FileRequest
    \/ HashBytesRequest

SpecAuth == InitAuth /\ [][NextAuth]_vars

(***************************************************************************)
(* Claims about the HTTP auth middleware                                   *)
(***************************************************************************)
XAuthCarriesToken(m) == m.hasX /\ m.xauth = <<"tok">>
BearerCarriesToken(m) == m.hasA /\ m.authz = <<"Bearer ", "tok">>
XAuthReadable(m) == m.hasX /\ \A i \in 1..Len(m.xauth) : m.xauth[i] # "0x80"
Guarded(m) == m.ep \notin {"none", "/health", "/io"}

\* C5 as stated: a request to a path other than /health and /io reaches its
\* handler if and only if it carries the process token in X-JST-Auth or in
\* Authorization: Bearer.
C5_HandlerIffTokenInEitherHeader ==
    Guarded(mw) => (mw.handler <=> (XAuthCarriesToken(mw) \/ BearerCarriesToken(mw)))

\* C5 amended: the token is taken from X-JST-Auth when that header is present
\* and readable as text, and only otherwise from Authorization: Bearer; the
\* request reaches its handler iff that token is the process token, and a
\* request that does not is answered 401 and changes no root, process or
\* handler state.
C5_HandlerIffFirstReadableToken ==
    [][Guarded(mw') =>
          /\ mw'.handler <=>
                IF XAuthReadable(mw') THEN XAuthCarriesToken(mw')
                ELSE BearerCarriesToken(mw')
          /\ ~mw'.handler =>
                /\ mw'.status = 401
                /\ UNCHANGED <<roots, procAlive, handled, fileOp, rpcFile>>]_vars

C5_Witness ==
    /\ mw.ep = "/control/shutdown"
    /\ mw.hasX /\ mw.xauth = <<"bad">>
    /\ BearerCarriesToken(mw)
    /\ ~mw.handler /\ mw.status = 401
    /\ procAlive /\ handled = 0

(***************************************************************************)
(* ws.rs: handle_socket.  The receive loop ("dispatcher") handles one      *)
(* inbound frame per action; a reply is enqueued with tx.send(..).await,   *)
(* which waits while the channel is full and fails once rx is gone.        *)
(***************************************************************************)
\* variant: a send that never waits for room
OutNeverWaits == TRUE
\* tx.send(frame).await can complete now
OutReady == ~rxOpen \/ Len(out) < OutCap
\* the channel after tx.send(frame).await.ok()
OutAfter(f) == IF rxOpen THEN Append(out, f) ELSE out

\* the registry mutex is held across an await only by the receive loop, in
\* TCP_SEND (the channel send) and in UDP_SEND (send_to on the socket); every
\* other critical section is one step
LockFree == dpc \notin {"tcp_send", "udp_send"}

\* the receive loop takes the next frame
CanRecv == dpc = "recv"
\* variant: the I/O opcodes are dispatched whether authenticated or not
GateOpen == TRUE
\* the `if !authenticated { .. continue / break }` block has been passed
PastAuthGate == authenticated
\* frames handled while authenticated are not recorded
Handled == lastIn' = NoFrameIn
\* n alternates, so that two equal frames in a row are two records
FrameIn(version, op, req, atype, data) ==
    [n |-> IF lastIn.n = 1 THEN 2 ELSE 1, version |-> version, op |-> op, req |-> req,
     atype |-> atype, data |-> data]

AuthBytes == {"NUL", "t", "k", "0x80"}
AuthData == SeqsUpTo(AuthBytes, MaxAuthLen)
\* AppState.token, as text
TokenText == <<"t", "k">>
\* authType byte of an AUTH payload; -1: the payload is empty
AuthTypes == {-1, 0, 1, 2}

\* String::from_utf8_lossy
from_utf8_lossy(bytes) ==
    [i \in 1..Len(bytes) |-> IF bytes[i] = "0x80" THEN "U+FFFD" ELSE bytes[i]]

\* data.iter().position(|&b| b == 0).unwrap_or(data.len()), as a length
TokenEnd(data) ==
    LET nuls == {i \in 1..Len(data) : data[i] = "NUL"}
    IN  IF nuls = {} THEN Len(data)
        ELSE (CHOOSE i \in nuls : \A j \in nuls : i <= j) - 1

\* variant: the payload is the token whatever the auth_type
AuthTokenWholePayload(atype, data) == from_utf8_lossy(data)

\* the token an AUTH payload carries (auth_type 0 or 1)
AuthToken(atype, data) ==
    IF atype = 0 THEN from_utf8_lossy(SubSeq(data, 1, TokenEnd(data)))
    ELSE from_utf8_lossy(data)

WsUnchangedHttp ==
    UNCHANGED httpVars /\ UNCHANGED family /\ UNCHANGED sessions /\ UNCHANGED swap /\ UNCHANGED disk /\ UNCHANGED host /\ UNCHANGED hashing

RegistryUnchanged ==
    UNCHANGED <<tcp_sockets, pending_connects, tcp_servers, udp_sockets, next_socket_id>>

TasksUnchanged == UNCHANGED <<ct, conn, lt, ut>>

\* a binary frame shorter than 8 bytes, a text frame, or a request whose
\* payload is too short: skipped without any effect
IgnoredFrame ==
    /\ dpc = "recv"
    /\ UNCHANGED vars

\* env.version != PROTOCOL_VERSION
BadVersionFrame ==
    /\ CanRecv
    /\ OutReady
    /\ \E op \in {OP_CLIENT_HELLO, OP_AUTH, OP_TCP_CONNECT}, r \in ReqIds :
        /\ out' = OutAfter(Frame(OP_ERROR, r, 0, 0, 0, "Invalid protocol version"))
        /\ IF authenticated THEN Handled
           ELSE lastIn' = FrameIn(PROTOCOL_VERSION + 1, op, r, 0, << >>)
    /\ dpc' = "cleanup"
    /\ UNCHANGED <<authenticated, darg, rxOpen>>
    /\ RegistryUnchanged /\ TasksUnchanged /\ WsUnchangedHttp

\* !authenticated, OP_CLIENT_HELLO
ClientHello ==
    /\ CanRecv /\ ~authenticated
    /\ OutReady
    /\ \E r \in ReqIds :
        /\ out' = OutAfter(Frame(OP_SERVER_HELLO, r, 0, 0, 0, ""))
        /\ lastIn' = FrameIn(PROTOCOL_VERSION, OP_CLIENT_HELLO, r, 0, << >>)
    /\ UNCHANGED <<authenticated, dpc, darg, rxOpen>>
    /\ RegistryUnchanged /\ TasksUnchanged /\ WsUnchangedHttp

\* !authenticated, OP_AUTH
AuthFrame ==
    /\ CanRecv /\ ~authenticated
    /\ OutReady
    /\ \E r \in ReqIds, atype \in AuthTypes, data \in AuthData :
        /\ atype = -1 => data = << >>
        /\ lastIn' = FrameIn(PROTOCOL_VERSION, OP_AUTH, r, atype, data)
        /\ IF atype = -1 THEN
              /\ out' = OutAfter(Frame(OP_ERROR, r, 0, 0, 0, "Empty auth payload"))
              /\ dpc' = "cleanup"
              /\ UNCHANGED authenticated
           ELSE IF atype \notin {0, 1} THEN
              /\ out' = OutAfter(Frame(OP_ERROR, r, 0, 0, 0, "Unknown auth type"))
              /\ dpc' = "cleanup"
              /\ UNCHANGED authenticated
           ELSE IF AuthToken(atype, data) = TokenText THEN
              /\ authenticated' = TRUE
              /\ out' = OutAfter(Frame(OP_AUTH_RESULT, r, 0, 0, 0, ""))
              /\ UNCHANGED dpc
           ELSE
              /\ out' = OutAfter(Frame(OP_AUTH_RESULT, r, 0, 1, 0, "Invalid token"))
              /\ dpc' = "cleanup"
              /\ UNCHANGED authenticated
    /\ UNCHANGED <<darg, rxOpen>>
    /\ RegistryUnchanged /\ TasksUnchanged /\ WsUnchangedHttp

\* opcodes a client may put in a frame besides CLIENT_HELLO and AUTH
RequestOps ==
    {OP_TCP_CONNECT, OP_TCP_SEND, OP_TCP_CLOSE, OP_TCP_LISTEN, OP_TCP_STOP_LISTEN,
     OP_UDP_BIND, OP_UDP_SEND, OP_UDP_CLOSE, OP_UDP_JOIN_MULTICAST,
     OP_UDP_LEAVE_MULTICAST}
\* opcodes that are no client request: server-to-client ones and an unassigned one
NonRequestOps ==
    {OP_SERVER_HELLO, OP_AUTH_RESULT, OP_TCP_CONNECTED, OP_TCP_RECV,
     OP_TCP_LISTEN_RESULT, OP_TCP_ACCEPT, OP_UDP_BOUND, OP_UDP_RECV, OP_ERROR, 85}

\* !authenticated, any other opcode
UnauthOther ==
    /\ CanRecv /\ ~authenticated
    /\ OutReady
    /\ \E op \in RequestOps \cup NonRequestOps, r \in ReqIds :
        /\ out' = OutAfter(Frame(OP_ERROR, r, 0, 0, 0, "Authentication required"))
        /\ lastIn' = FrameIn(PROTOCOL_VERSION, op, r, 0, << >>)
    /\ dpc' = "cleanup"
    /\ UNCHANGED <<authenticated, darg, rxOpen>>
    /\ RegistryUnchanged /\ TasksUnchanged /\ WsUnchangedHttp

\* authenticated, an opcode that is no request (also CLIENT_HELLO and AUTH)
UnknownOpcode ==
    /\ CanRecv /\ PastAuthGate
    /\ OutReady
    /\ \E op \in NonRequestOps \cup {OP_CLIENT_HELLO, OP_AUTH}, r \in ReqIds :
        out' = OutAfter(Frame(OP_ERROR, r, 0, 0, 0, "Unknown opcode"))
    /\ Handled
    /\ UNCHANGED <<authenticated, dpc, darg, rxOpen>>
    /\ RegistryUnchanged /\ TasksUnchanged /\ WsUnchangedHttp

\* send_task: rx.recv() then sender.send(Message::Binary(data))
SenderWrite ==
    /\ rxOpen /\ out # << >>
    /\ out' = Tail(out)
    /\ UNCHANGED <<authenticated, dpc, darg, lastIn, rxOpen>>
    /\ RegistryUnchanged /\ TasksUnchanged /\ WsUnchangedHttp

\* send_task: sender.send(..) fails, the task ends and drops rx
SenderFail ==
    /\ rxOpen /\ out # << >>
    /\ rxOpen' = FALSE
    /\ out' = << >>
    /\ UNCHANGED <<authenticated, dpc, darg, lastIn>>
    /\ RegistryUnchanged /\ TasksUnchanged /\ WsUnchangedHttp

\* receiver.next() yields None or an error: the client is gone
WsClosed ==
    /\ dpc = "recv"
    /\ dpc' = "cleanup"
    /\ UNCHANGED <<authenticated, darg, lastIn, out, rxOpen>>
    /\ RegistryUnchanged /\ TasksUnchanged /\ WsUnchangedHttp

(***************************************************************************)
(* Task cancellation.  AbortHandle::abort / JoinHandle::abort marks the    *)
(* task; a task parked at an await is dropped there, a task that is        *)
(* running goes on until the next await that is not ready.                 *)
(***************************************************************************)
ConnectRunning == {"ok_lock", "err_lock", "ok_send", "err_send"}
ConnectLive == {"connecting"} \cup ConnectRunning

abort_connect(t) ==
    IF t.pc = "connecting" THEN [t EXCEPT !.pc = "cancelled", !.aborted = TRUE]
    ELSE [t EXCEPT !.aborted = TRUE]

AcceptRunning == {"alloc", "send_accept", "insert"}
AcceptLive == {"accept"} \cup AcceptRunning

abort_accept(l) ==
    IF l.al = "accept" THEN [l EXCEPT !.al = "cancelled", !.aborted = TRUE]
    ELSE IF l.al \in AcceptRunning THEN [l EXCEPT !.aborted = TRUE]
    ELSE l

\* the clean-up block after the receive loop, and send_task.abort()
Cleanup ==
    /\ dpc = "cleanup"
    /\ lt' = [j \in ListenTasks |->
                IF \E s \in ServerIds : tcp_servers[s] = j
                THEN abort_accept(lt[j]) ELSE lt[j]]
    /\ rxOpen' = FALSE
    /\ out' = << >>
    /\ dpc' = "ended"
    /\ UNCHANGED <<authenticated, darg, lastIn, ct, conn, ut>>
    /\ RegistryUnchanged /\ WsUnchangedHttp

(***************************************************************************)
(* TCP_CONNECT, TCP_SEND, TCP_CLOSE and the tasks of one outbound          *)
(* connection.  Connect task k owns stream k.                              *)
(***************************************************************************)
FreeConnectTasks == {k \in ConnectTasks : ct[k].pc = "unused"}

\* the socket ids the client picks: any u32 in the code; the "mixed" family
\* looks at the first id the server itself hands out
ConnectIds ==
    IF family = "mixed" THEN {FirstAcceptedId}
    ELSE IF family = "stream" THEN {1} ELSE TcpIds

\* the payloads and chunks told apart; they are followed in the "stream" family
Payloads == IF family = "stream" THEN {"x", "y"} ELSE {"d"}
Log(l, x) == IF family = "stream" THEN Append(l, x) ELSE l
\* room in a write channel, with one place more where payloads are followed
WqCap == IF family = "stream" THEN WriteCap + 1 ELSE WriteCap

\* OP_TCP_CONNECT up to tokio::spawn: the task exists, its abort handle is
\* not yet in pending_connects
TcpConnect ==
    /\ CanRecv /\ PastAuthGate
    /\ family \in {"tcp", "stream", "mixed"}
    /\ FreeConnectTasks # {}
    /\ family = "tcp" \/ FreeConnectTasks = ConnectTasks
    /\ LET k == CHOOSE x \in FreeConnectTasks : \A y \in FreeConnectTasks : x <= y
       IN  /\ \E s \in ConnectIds, r \in ReqIds :
                ct' = [ct EXCEPT ![k] = [pc |-> "connecting", sid |-> s, req |-> r,
                                         aborted |-> FALSE, emitted |-> 0]]
           /\ darg' = k
    /\ dpc' = "reg_connect"
    /\ Handled
    /\ UNCHANGED <<authenticated, out, rxOpen, conn, lt, ut>>
    /\ RegistryUnchanged /\ WsUnchangedHttp

\* socket_manager.lock().await.pending_connects.insert(socket_id, task.abort_handle())
RegisterConnect ==
    /\ dpc = "reg_connect"
    /\ pending_connects' = [pending_connects EXCEPT ![ct[darg].sid] = darg]
    /\ dpc' = "recv"
    /\ darg' = 0
    /\ UNCHANGED <<authenticated, lastIn, out, rxOpen, tcp_sockets, tcp_servers,
                   udp_sockets, next_socket_id>>
    /\ TasksUnchanged /\ WsUnchangedHttp

\* timeout(connect_timeout, TcpStream::connect(..)).await returns
ConnectResolve(k) ==
    /\ ct[k].pc = "connecting"
    /\ \E ok \in BOOLEAN :
        ct' = [ct EXCEPT ![k].pc = IF ok THEN "ok_lock" ELSE "err_lock"]
    /\ UNCHANGED <<authenticated, dpc, darg, lastIn, out, rxOpen, conn, lt, ut>>
    /\ RegistryUnchanged /\ WsUnchangedHttp

\* Ok(stream): move from pending to established, under the lock
ConnectEstablish(k) ==
    /\ ct[k].pc = "ok_lock"
    /\ LockFree
    /\ pending_connects' = [pending_connects EXCEPT ![ct[k].sid] = 0]
    /\ tcp_sockets' = [tcp_sockets EXCEPT ![ct[k].sid] = k]
    /\ conn' = [conn EXCEPT ![k] = [NoStream EXCEPT !.sid = ct[k].sid]]
    /\ ct' = [ct EXCEPT ![k].pc = "ok_send"]
    /\ UNCHANGED <<authenticated, dpc, darg, lastIn, out, rxOpen, tcp_servers,
                   udp_sockets, next_socket_id, lt, ut>>
    /\ WsUnchangedHttp

\* Ok(stream): send TCP_CONNECTED (status 0), then spawn the read and write tasks
ConnectReportOk(k) ==
    /\ ct[k].pc = "ok_send"
    /\ OutReady
    /\ out' = OutAfter(Frame(OP_TCP_CONNECTED, ct[k].req, ct[k].sid, 0, 0, ""))
    /\ ct' = [ct EXCEPT ![k].pc = "done",
                        ![k].emitted = IF rxOpen THEN @ + 1 ELSE @]
    /\ conn' = [conn EXCEPT ![k].rd = "read", ![k].wr = "run"]
    /\ UNCHANGED <<authenticated, dpc, darg, lastIn, rxOpen, lt, ut>>
    /\ RegistryUnchanged /\ WsUnchangedHttp

\* Err(_): manager.lock().await.pending_connects.remove(&socket_id)
ConnectFailRemove(k) ==
    /\ ct[k].pc = "err_lock"
    /\ LockFree
    /\ pending_connects' = [pending_connects EXCEPT ![ct[k].sid] = 0]
    /\ ct' = [ct EXCEPT ![k].pc = "err_send"]
    /\ UNCHANGED <<authenticated, dpc, darg, lastIn, out, rxOpen, tcp_sockets,
                   tcp_servers, udp_sockets, next_socket_id, conn, lt, ut>>
    /\ WsUnchangedHttp

\* Err(_): send TCP_CONNECTED (status 1, errno 1)
ConnectReportErr(k) ==
    /\ ct[k].pc = "err_send"
    /\ OutReady
    /\ out' = OutAfter(Frame(OP_TCP_CONNECTED, ct[k].req, ct[k].sid, 1, 1, ""))
    /\ ct' = [ct EXCEPT ![k].pc = "done",
                        ![k].emitted = IF rxOpen THEN @ + 1 ELSE @]
    /\ UNCHANGED <<authenticated, dpc, darg, lastIn, rxOpen, conn, lt, ut>>
    /\ RegistryUnchanged /\ WsUnchangedHttp

\* an aborted connect task yields at one of its awaits (the lock is taken, the
\* channel is full, or the task was woken but not yet polled) and is dropped
\* there, with the stream it may hold
ConnectCancel(k) ==
    /\ ct[k].aborted
    /\ ct[k].pc \in ConnectRunning
    /\ ct' = [ct EXCEPT ![k].pc = "cancelled"]
    /\ conn' = IF ct[k].pc = "ok_send"
               THEN [conn EXCEPT ![k].rd = "done", ![k].wr = "done"]
               ELSE conn
    /\ UNCHANGED <<authenticated, dpc, darg, lastIn, out, rxOpen, lt, ut>>
    /\ RegistryUnchanged /\ WsUnchangedHttp

\* variant: the entry survives
Kept(m, s) == m
\* HashMap::remove(&socket_id)
Removed(m, s) == [m EXCEPT ![s] = 0]

\* OP_TCP_CLOSE; where payloads are followed, shut records that the socket
\* was closed by the client
TcpClose ==
    /\ CanRecv /\ PastAuthGate
    /\ family \in {"tcp", "stream"}
    /\ \E s \in SocketIds :
        /\ tcp_sockets' = Removed(tcp_sockets, s)
        /\ conn' = IF family = "stream" /\ tcp_sockets[s] # 0
                   THEN [conn EXCEPT ![tcp_sockets[s]].shut = TRUE] ELSE conn
        /\ IF pending_connects[s] # 0
           THEN /\ pending_connects' = [pending_connects EXCEPT ![s] = 0]
                /\ ct' = [ct EXCEPT ![pending_connects[s]] = abort_connect(@)]
           ELSE UNCHANGED <<pending_connects, ct>>
    /\ Handled
    /\ UNCHANGED <<authenticated, dpc, darg, out, rxOpen, tcp_servers, udp_sockets,
                   next_socket_id, lt, ut>>
    /\ WsUnchangedHttp

\* variant: a queue that hands out the latest payload first
EnqueueFront(q, p) == <<p>> \o q
\* the write queue takes a payload at its tail
Enqueue(q, p) == Append(q, p)

\* OP_TCP_SEND: the registry guard lives until sender.send(data).await returns;
\* without an entry, or with write_rx gone, the payload is dropped
TcpSend ==
    /\ CanRecv /\ PastAuthGate
    /\ family \in {"tcp", "stream"}
    /\ \E s \in SocketIds, p \in Payloads :
        LET c == tcp_sockets[s]
        IN  IF c = 0 \/ conn[c].wr = "done" THEN
                UNCHANGED <<dpc, darg, conn>>
            ELSE
                /\ family = "stream" => Len(conn[c].sent) < MaxData
                /\ IF Len(conn[c].wq) < WqCap
                   THEN /\ conn' = [conn EXCEPT ![c].wq = Enqueue(@, p),
                                                ![c].sent = Log(@, p)]
                        /\ UNCHANGED <<dpc, darg>>
                   ELSE /\ dpc' = "tcp_send"
                        /\ darg' = c
                        /\ conn' = [conn EXCEPT ![c].pend = p, ![c].sent = Log(@, p)]
    /\ Handled
    /\ UNCHANGED <<authenticated, out, rxOpen, ct, lt, ut>>
    /\ RegistryUnchanged /\ WsUnchangedHttp

\* sender.send(data).await completes: room in the queue, or write_rx is gone
TcpSendResume ==
    /\ dpc = "tcp_send"
    /\ \/ /\ conn[darg].wr = "done"
          /\ conn' = [conn EXCEPT ![darg].pend = ""]
       \/ /\ conn[darg].wr # "done"
          /\ Len(conn[darg].wq) < WqCap
          /\ conn' = [conn EXCEPT ![darg].wq = Enqueue(@, conn[darg].pend),
                                  ![darg].pend = ""]
    /\ dpc' = "recv"
    /\ darg' = 0
    /\ UNCHANGED <<authenticated, lastIn, out, rxOpen, ct, lt, ut>>
    /\ RegistryUnchanged /\ WsUnchangedHttp

(***************************************************************************)
(* The read task and the write task of an established stream.  What the    *)
(* remote peer does (sending, closing, taking data) is not under the       *)
(* daemon's control.                                                       *)
(***************************************************************************)
ListenLive == {"bind", "ok_send", "register", "err_send"}
UdpLive == {"bind", "ok_lock", "ok_send", "err_send"}

\* some clone of the Arc<Mutex<SocketManager>> is still held: by handle_socket,
\* or by a spawned task that captured `manager`
ManagerAlive ==
    \/ dpc # "ended"
    \/ \E k \in ConnectTasks : ct[k].pc \in ConnectLive
    \/ \E j \in ListenTasks : lt[j].pc \in ListenLive \/ lt[j].al \in AcceptLive
    \/ \E u \in UdpTasks : ut[u].pc \in UdpLive

\* the write_tx of stream c is still held in tcp_sockets
WtxAlive(c) == ManagerAlive /\ \E s \in SocketIds : tcp_sockets[s] = c

StreamUnchanged ==
    /\ UNCHANGED <<authenticated, dpc, darg, lastIn, rxOpen, ct, lt, ut>>
    /\ RegistryUnchanged /\ WsUnchangedHttp

\* read_half.read(..) returns Ok(n), n > 0: the peer sent data
PeerData(c) ==
    /\ conn[c].rd = "read"
    /\ family = "stream" => Len(conn[c].got) < MaxData
    /\ \E b \in Payloads :
          conn' = [conn EXCEPT ![c].rd = "send_recv", ![c].buf = b, ![c].got = Log(@, b)]
    /\ UNCHANGED out /\ StreamUnchanged

\* read_half.read(..) returns Ok(0) or Err: the peer closed or reset
PeerEof(c) ==
    /\ conn[c].rd = "read"
    /\ conn' = [conn EXCEPT ![c].rd = "send_close"]
    /\ UNCHANGED out /\ StreamUnchanged

\* variant: the frame carries a fixed chunk
RecvPayloadFixed(c) == "x"
\* the payload of TCP_RECV after the socket id: buf[..n]
RecvPayload(c) == conn[c].buf

\* tx_read.send(TCP_RECV).await; on error leave the loop
ReadSendRecv(c) ==
    /\ conn[c].rd = "send_recv"
    /\ OutReady
    /\ out' = OutAfter(Frame(OP_TCP_RECV, 0, conn[c].sid, 0, 0, RecvPayload(c)))
    /\ conn' = [conn EXCEPT ![c].rd = IF rxOpen THEN "read" ELSE "send_close",
                            ![c].buf = "",
                            ![c].fwd = IF rxOpen THEN Log(@, RecvPayload(c)) ELSE @]
    /\ StreamUnchanged

\* after the loop: tx_read.send(TCP_CLOSE).await.ok(); read_half is dropped.
\* The task ends "closed" when the frame was enqueued, "done" when it was not.
ReadSendClose(c) ==
    /\ conn[c].rd = "send_close"
    /\ OutReady
    /\ out' = OutAfter(Frame(OP_TCP_CLOSE, 0, conn[c].sid, 0, 0, ""))
    /\ conn' = [conn EXCEPT ![c].rd = IF rxOpen THEN "closed" ELSE "done"]
    /\ StreamUnchanged

\* write_half.write_all(&data) succeeds: the peer took the data
WriteDrain(c) ==
    /\ conn[c].wr = "run" /\ conn[c].wq # << >>
    /\ conn' = [conn EXCEPT ![c].wq = Tail(@), ![c].wrote = Log(@, Head(conn[c].wq))]
    /\ UNCHANGED out /\ StreamUnchanged

\* write_half.write_all(&data) fails: the task ends, write_rx is dropped
WriteFail(c) ==
    /\ conn[c].wr = "run" /\ conn[c].wq # << >>
    /\ conn' = [conn EXCEPT ![c].wr = "done", ![c].wq = << >>]
    /\ UNCHANGED out /\ StreamUnchanged

\* write_rx.recv() returns None: every write_tx is gone
WriteEnd(c) ==
    /\ conn[c].wr = "run" /\ conn[c].wq = << >>
    /\ ~WtxAlive(c)
    /\ conn' = [conn EXCEPT ![c].wr = "done"]
    /\ UNCHANGED out /\ StreamUnchanged

(***************************************************************************)
(* TCP_LISTEN, TCP_STOP_LISTEN, the listen task and its accept loop.       *)
(***************************************************************************)
FreeListenTasks == {j \in ListenTasks : lt[j].pc = "unused"}

\* the stream of the accepted connection with socket id `id`
StreamOf(id) == MaxConnects + (id - FirstAcceptedId) + 1

\* OP_TCP_LISTEN: tokio::spawn, the JoinHandle is dropped
TcpListen ==
    /\ CanRecv /\ PastAuthGate
    /\ family \in {"listen", "mixed"}
    /\ FreeListenTasks # {}
    /\ family = "listen" \/ FreeListenTasks = ListenTasks
    /\ LET j == CHOOSE x \in FreeListenTasks : \A y \in FreeListenTasks : x <= y
       IN  \E s \in ServerIds, r \in ReqIds :
             lt' = [lt EXCEPT ![j] = [NoListenTask EXCEPT !.pc = "bind", !.sid = s,
                                                        !.req = r]]
    /\ Handled
    /\ UNCHANGED <<authenticated, dpc, darg, out, rxOpen, ct, conn, ut>>
    /\ RegistryUnchanged /\ WsUnchangedHttp

ListenUnchanged ==
    /\ UNCHANGED <<authenticated, dpc, darg, lastIn, rxOpen, ct, ut>>
    /\ WsUnchangedHttp

\* TcpListener::bind(&addr).await returns
ListenBind(j) ==
    /\ lt[j].pc = "bind"
    /\ \E ok \in BOOLEAN :
        lt' = [lt EXCEPT ![j].pc = IF ok THEN "ok_send" ELSE "err_send"]
    /\ UNCHANGED <<out, conn>> /\ RegistryUnchanged /\ ListenUnchanged

\* Ok(listener): send TCP_LISTEN_RESULT (status 0), spawn the accept loop
ListenReportOk(j) ==
    /\ lt[j].pc = "ok_send"
    /\ OutReady
    /\ out' = OutAfter(Frame(OP_TCP_LISTEN_RESULT, lt[j].req, lt[j].sid, 0, 0, ""))
    /\ lt' = [lt EXCEPT ![j].pc = "register", ![j].al = "accept"]
    /\ UNCHANGED conn /\ RegistryUnchanged /\ ListenUnchanged

\* manager.lock().await.tcp_servers.insert(server_id, accept_handle); a handle
\* it replaces is dropped, which leaves that accept loop running
ListenRegister(j) ==
    /\ lt[j].pc = "register"
    /\ LockFree
    /\ tcp_servers' = [tcp_servers EXCEPT ![lt[j].sid] = j]
    /\ lt' = [lt EXCEPT ![j].pc = "done"]
    /\ UNCHANGED <<out, conn, tcp_sockets, pending_connects, udp_sockets,
                   next_socket_id>>
    /\ ListenUnchanged

\* Err(_): send TCP_LISTEN_RESULT (status 1)
ListenReportErr(j) ==
    /\ lt[j].pc = "err_send"
    /\ OutReady
    /\ out' = OutAfter(Frame(OP_TCP_LISTEN_RESULT, lt[j].req, lt[j].sid, 1, 1, ""))
    /\ lt' = [lt EXCEPT ![j].pc = "done"]
    /\ UNCHANGED conn /\ RegistryUnchanged /\ ListenUnchanged

\* connections accepted or being accepted so far
AcceptedSoFar ==
    (next_socket_id - FirstAcceptedId)
        + Cardinality({j \in ListenTasks : lt[j].al = "alloc"})

\* listener.accept().await returns Ok: a peer connected
PeerConnects(j) ==
    /\ lt[j].al = "accept"
    /\ AcceptedSoFar < MaxAccepts
    /\ family = "listen" \/ AcceptedSoFar = 0
    /\ lt' = [lt EXCEPT ![j].al = "alloc"]
    /\ UNCHANGED <<out, conn>> /\ RegistryUnchanged /\ ListenUnchanged

\* listener.accept().await returns Err: the loop ends, the listener is dropped
AcceptError(j) ==
    /\ lt[j].al = "accept"
    /\ lt' = [lt EXCEPT ![j].al = "done"]
    /\ UNCHANGED <<out, conn>> /\ RegistryUnchanged /\ ListenUnchanged

\* the counter left as it was
SameId(n) == n

\* mgr.next_socket_id += 1
NextId(n) == n + 1

\* allocate a socket id under the lock
AcceptAlloc(j) ==
    /\ lt[j].al = "alloc"
    /\ LockFree
    /\ next_socket_id' = NextId(next_socket_id)
    /\ lt' = [lt EXCEPT ![j].al = "send_accept", ![j].cur = next_socket_id]
    /\ UNCHANGED <<out, conn, tcp_sockets, pending_connects, tcp_servers, udp_sockets>>
    /\ ListenUnchanged

\* tx_accept.send(TCP_ACCEPT).await; on error leave the loop
AcceptSend(j) ==
    /\ lt[j].al = "send_accept"
    /\ OutReady
    /\ out' = OutAfter(Frame(OP_TCP_ACCEPT, 0, lt[j].cur, 0, 0, ""))
    /\ lt' = IF rxOpen THEN [lt EXCEPT ![j].al = "insert"]
             ELSE [lt EXCEPT ![j].al = "done", ![j].cur = 0]
    /\ UNCHANGED conn /\ RegistryUnchanged /\ ListenUnchanged

\* tcp_sockets.insert(socket_id, write_tx), spawn the read and write tasks
AcceptInsert(j) ==
    /\ lt[j].al = "insert"
    /\ LockFree
    /\ tcp_sockets' = [tcp_sockets EXCEPT ![lt[j].cur] = StreamOf(lt[j].cur)]
    /\ conn' = [conn EXCEPT ![StreamOf(lt[j].cur)] =
                    [NoStream EXCEPT !.rd = "read", !.wr = "run", !.sid = lt[j].cur]]
    /\ lt' = [lt EXCEPT ![j].al = "accept", ![j].cur = 0]
    /\ UNCHANGED <<out, pending_connects, tcp_servers, udp_sockets, next_socket_id>>
    /\ ListenUnchanged

\* an aborted accept loop yields at one of its awaits and is dropped there,
\* with its listener and the connection it may hold
AcceptCancel(j) ==
    /\ lt[j].aborted
    /\ lt[j].al \in AcceptLive
    /\ lt' = [lt EXCEPT ![j].al = "cancelled", ![j].cur = 0]
    /\ UNCHANGED <<out, conn>> /\ RegistryUnchanged /\ ListenUnchanged

\* OP_TCP_STOP_LISTEN
TcpStopListen ==
    /\ CanRecv /\ PastAuthGate
    /\ family = "listen"
    /\ \E s \in ServerIds :
        IF tcp_servers[s] # 0
        THEN /\ tcp_servers' = [tcp_servers EXCEPT ![s] = 0]
             /\ lt' = [lt EXCEPT ![tcp_servers[s]] = abort_accept(@)]
        ELSE UNCHANGED <<tcp_servers, lt>>
    /\ Handled
    /\ UNCHANGED <<authenticated, dpc, darg, out, rxOpen, tcp_sockets,
                   pending_connects, udp_sockets, next_socket_id, ct, conn, ut>>
    /\ WsUnchangedHttp

(***************************************************************************)
(* UDP_BIND, UDP_SEND, UDP_CLOSE, multicast, the bind task and its recv    *)
(* loop.  Bind task u owns UDP socket u.                                   *)
(***************************************************************************)
FreeUdpTasks == {u \in UdpTasks : ut[u].pc = "unused"}

\* OP_UDP_BIND: tokio::spawn, the JoinHandle is dropped
UdpBind ==
    /\ CanRecv /\ PastAuthGate
    /\ family = "udp"
    /\ FreeUdpTasks # {}
    /\ LET u == CHOOSE x \in FreeUdpTasks : \A y \in FreeUdpTasks : x <= y
       IN  \E s \in UdpIds, r \in ReqIds :
             ut' = [ut EXCEPT ![u] = [NoUdpTask EXCEPT !.pc = "bind", !.sid = s,
                                                     !.req = r]]
    /\ Handled
    /\ UNCHANGED <<authenticated, dpc, darg, out, rxOpen, ct, conn, lt>>
    /\ RegistryUnchanged /\ WsUnchangedHttp

UdpUnchanged ==
    /\ UNCHANGED <<authenticated, dpc, darg, lastIn, rxOpen, ct, conn, lt>>
    /\ WsUnchangedHttp

\* bind_result: the socket2 closure
UdpBindResult(u) ==
    /\ ut[u].pc = "bind"
    /\ \E ok \in BOOLEAN :
        ut' = [ut EXCEPT ![u].pc = IF ok THEN "ok_lock" ELSE "err_send"]
    /\ UNCHANGED out /\ RegistryUnchanged /\ UdpUnchanged

\* manager.lock().await.udp_sockets.insert(socket_id, socket.clone())
UdpInsert(u) ==
    /\ ut[u].pc = "ok_lock"
    /\ LockFree
    /\ udp_sockets' = [udp_sockets EXCEPT ![ut[u].sid] = u]
    /\ ut' = [ut EXCEPT ![u].pc = "ok_send"]
    /\ UNCHANGED <<out, tcp_sockets, pending_connects, tcp_servers, next_socket_id>>
    /\ UdpUnchanged

\* send UDP_BOUND (status 0), spawn the recv loop
UdpReportOk(u) ==
    /\ ut[u].pc = "ok_send"
    /\ OutReady
    /\ out' = OutAfter(Frame(OP_UDP_BOUND, ut[u].req, ut[u].sid, 0, 0, ""))
    /\ ut' = [ut EXCEPT ![u].pc = "done", ![u].ur = "recv"]
    /\ RegistryUnchanged /\ UdpUnchanged

\* send UDP_BOUND (status 1, errno 1)
UdpReportErr(u) ==
    /\ ut[u].pc = "err_send"
    /\ OutReady
    /\ out' = OutAfter(Frame(OP_UDP_BOUND, ut[u].req, ut[u].sid, 1, 1, ""))
    /\ ut' = [ut EXCEPT ![u].pc = "done"]
    /\ RegistryUnchanged /\ UdpUnchanged

\* socket.recv_from(..) returns Ok: a datagram arrived
UdpPeerData(u) ==
    /\ ut[u].ur = "recv"
    /\ ut' = [ut EXCEPT ![u].ur = "send_recv"]
    /\ UNCHANGED out /\ RegistryUnchanged /\ UdpUnchanged

\* socket.recv_from(..) returns Err
UdpRecvError(u) ==
    /\ ut[u].ur = "recv"
    /\ ut' = [ut EXCEPT ![u].ur = "send_close"]
    /\ UNCHANGED out /\ RegistryUnchanged /\ UdpUnchanged

\* tx_read.send(UDP_RECV).await; on error leave the loop
UdpSendRecv(u) ==
    /\ ut[u].ur = "send_recv"
    /\ OutReady
    /\ out' = OutAfter(Frame(OP_UDP_RECV, 0, ut[u].sid, 0, 0, ""))
    /\ ut' = [ut EXCEPT ![u].ur = IF rxOpen THEN "recv" ELSE "send_close"]
    /\ RegistryUnchanged /\ UdpUnchanged

\* after the loop: tx_read.send(UDP_CLOSE).await.ok(); the socket is dropped
UdpSendClose(u) ==
    /\ ut[u].ur = "send_close"
    /\ OutReady
    /\ out' = OutAfter(Frame(OP_UDP_CLOSE, 0, ut[u].sid, 0, 0, ""))
    /\ ut' = [ut EXCEPT ![u].ur = IF rxOpen THEN "closed" ELSE "done"]
    /\ RegistryUnchanged /\ UdpUnchanged

\* OP_UDP_JOIN_MULTICAST, OP_UDP_LEAVE_MULTICAST: look the socket up and set
\* the option, without an await under the guard; no state of the session changes
UdpUse ==
    /\ CanRecv /\ PastAuthGate
    /\ family = "udp"
    /\ \E op \in {OP_UDP_JOIN_MULTICAST, OP_UDP_LEAVE_MULTICAST},
          s \in UdpIds : TRUE
    /\ Handled
    /\ UNCHANGED <<authenticated, dpc, darg, out, rxOpen>>
    /\ RegistryUnchanged /\ TasksUnchanged /\ WsUnchangedHttp

\* OP_UDP_SEND: the guard taken in the `if let` lives until
\* socket.send_to(data, &addr).await returns; without an entry nothing happens
UdpSend ==
    /\ CanRecv /\ PastAuthGate
    /\ family = "udp"
    /\ \E s \in UdpIds :
          IF udp_sockets[s] = 0 THEN UNCHANGED <<dpc, darg>>
          ELSE dpc' = "udp_send" /\ darg' = udp_sockets[s]
    /\ Handled
    /\ UNCHANGED <<authenticated, out, rxOpen>>
    /\ RegistryUnchanged /\ TasksUnchanged /\ WsUnchangedHttp

\* send_to completes (the socket was writable, or the send failed: .ok())
UdpSendDone ==
    /\ dpc = "udp_send"
    /\ dpc' = "recv"
    /\ darg' = 0
    /\ UNCHANGED <<authenticated, lastIn, out, rxOpen>>
    /\ RegistryUnchanged /\ TasksUnchanged /\ WsUnchangedHttp

\* OP_UDP_CLOSE
UdpClose ==
    /\ CanRecv /\ PastAuthGate
    /\ family = "udp"
    /\ \E s \in UdpIds : udp_sockets' = [udp_sockets EXCEPT ![s] = 0]
    /\ Handled
    /\ UNCHANGED <<authenticated, dpc, darg, out, rxOpen, tcp_sockets,
                   pending_connects, tcp_servers, next_socket_id>>
    /\ TasksUnchanged /\ WsUnchangedHttp

(***************************************************************************)
(* One WebSocket session: the /io upgrade has been accepted and            *)
(* handle_socket starts.                                                   *)
(***************************************************************************)
InitWs ==
    /\ windows = FALSE
    /\ roots = << >>
    /\ fileOp = NoFileOp
    /\ mw = NoMw
    /\ procAlive = TRUE
    /\ handled = 0
    /\ rpcFile = NoRpcFile
    /\ WsFresh
    /\ swap = NoSwap
    /\ disk = NoDisk
    /\ host = NoHost
    /\ hashing = NoHashing

Dispatcher ==
    \/ IgnoredFrame \/ BadVersionFrame \/ ClientHello \/ AuthFrame \/ UnauthOther
    \/ UnknownOpcode \/ WsClosed \/ Cleanup
    \/ TcpConnect \/ RegisterConnect \/ TcpSend \/ TcpSendResume \/ TcpClose
    \/ TcpListen \/ TcpStopListen \/ UdpBind \/ UdpUse \/ UdpSend \/ UdpSendDone
    \/ UdpClose

SendTask == SenderWrite \/ SenderFail

ConnectTaskStep(k) ==
    \/ ConnectEstablish(k) \/ ConnectReportOk(k)
    \/ ConnectFailRemove(k) \/ ConnectReportErr(k) \/ ConnectCancel(k)

StreamTaskStep(c) == ReadSendRecv(c) \/ ReadSendClose(c) \/ WriteEnd(c)

ListenTaskStep(j) ==
    \/ ListenBind(j) \/ ListenReportOk(j) \/ ListenRegister(j) \/ ListenReportErr(j)
    \/ AcceptAlloc(j) \/ AcceptSend(j) \/ AcceptInsert(j) \/ AcceptCancel(j)

UdpTaskStep(u) ==
    \/ UdpBindResult(u) \/ UdpInsert(u) \/ UdpReportOk(u) \/ UdpReportErr(u)
    \/ UdpSendRecv(u) \/ UdpSendClose(u)

\* what the network and the remote peers do
Remote ==
    \/ \E k \in ConnectTasks : ConnectResolve(k)
    \/ \E c \in Streams : PeerData(c) \/ PeerEof(c) \/ WriteDrain(c) \/ WriteFail(c)
    \/ \E j \in ListenTasks : PeerConnects(j) \/ AcceptError(j)
    \/ \E u \in UdpTasks : UdpPeerData(u) \/ UdpRecvError(u)

NextWs ==
    \/ Dispatcher
    \/ SendTask
    \/ \E k \in ConnectTasks : ConnectTaskStep(k)
    \/ \E c \in Streams : StreamTaskStep(c)
    \/ \E j \in ListenTasks : ListenTaskStep(j)
    \/ \E u \in UdpTasks : UdpTaskStep(u)
    \/ Remote

SpecWs == InitWs /\ [][NextWs]_vars

(***************************************************************************)
(* C1, C2: the authentication gate of a session.                           *)
(***************************************************************************)
NoSocketState ==
    /\ \A s \in SocketIds : tcp_sockets[s] = 0
    /\ \A s \in SocketIds : pending_connects[s] = 0
    /\ \A s \in ServerIds : tcp_servers[s] = 0
    /\ \A s \in UdpIds : udp_sockets[s] = 0
    /\ \A k \in ConnectTasks : ct[k].pc = "unused"
    /\ \A c \in Streams : conn[c] = NoStream
    /\ \A j \in ListenTasks : lt[j].pc = "unused" /\ lt[j].al = "none"
    /\ \A u \in UdpTasks : ut[u].pc = "unused" /\ ut[u].ur = "none"

\* this step handled a frame with a valid envelope while unauthenticated
UnauthFrameStep ==
    /\ ~authenticated
    /\ lastIn' # lastIn
    /\ lastIn'.version = PROTOCOL_VERSION

\* this step put frame f on the outbound channel (if the channel still exists)
Answered(f) == rxOpen => out' = Append(out, f)

\* C1: while the session is unauthenticated there is no registry entry and no
\* socket task, and a frame with any opcode other than CLIENT_HELLO and AUTH
\* handled while unauthenticated is answered with ERROR("Authentication
\* required") and takes the receive loop to its end.
C1_NothingBeforeAuth ==
    /\ (~authenticated => NoSocketState)
    /\ [][ /\ (~authenticated' => NoSocketState')
           /\ (UnauthFrameStep /\ lastIn'.op \notin {OP_CLIENT_HELLO, OP_AUTH}
                 => /\ Answered(Frame(OP_ERROR, lastIn'.req, 0, 0, 0,
                                      "Authentication required"))
                    /\ dpc' = "cleanup"
                    /\ ~authenticated') ]_vars

C1_Witness ==
    /\ ~authenticated
    /\ lastIn.op = OP_TCP_CONNECT
    /\ lastIn.version = PROTOCOL_VERSION
    /\ dpc = "cleanup"
    /\ out = <<Frame(OP_ERROR, lastIn.req, 0, 0, 0, "Authentication required")>>

\* the process token as bytes
TokenBytes == <<"t", "k">>

\* the bytes of a payload before its first NUL
BeforeFirstNul(data) ==
    LET P == {i \in 0..Len(data) : \A j \in 1..i : data[j] # "NUL"}
    IN  SubSeq(data, 1, CHOOSE i \in P : \A j \in P : j <= i)

\* the token of an AUTH payload as the protocol defines it
ExtractedToken(atype, data) == IF atype = 0 THEN BeforeFirstNul(data) ELSE data

\* this step handled an AUTH frame of authType 0 or 1 while unauthenticated
AuthStep ==
    /\ UnauthFrameStep
    /\ lastIn'.op = OP_AUTH
    /\ lastIn'.atype \in {0, 1}

\* C2: a session becomes authenticated only by an AUTH frame whose extracted
\* token equals the process token, and that frame is answered AUTH_RESULT [0];
\* an AUTH frame with another token is answered AUTH_RESULT [1, "Invalid
\* token"] and ends the receive loop unauthenticated; a session whose receive
\* loop has ended never becomes authenticated, and an authenticated session
\* stays authenticated.
C2_AuthOnlyByMatchingToken ==
    [][ /\ (authenticated => authenticated')
        /\ (~authenticated /\ authenticated' => AuthStep)
        /\ (dpc \in {"cleanup", "ended"} => authenticated' = authenticated)
        /\ (AuthStep /\ ExtractedToken(lastIn'.atype, lastIn'.data) = TokenBytes
              => /\ authenticated'
                 /\ Answered(Frame(OP_AUTH_RESULT, lastIn'.req, 0, 0, 0, ""))
                 /\ dpc' = "recv")
        /\ (AuthStep /\ ExtractedToken(lastIn'.atype, lastIn'.data) # TokenBytes
              => /\ ~authenticated'
                 /\ Answered(Frame(OP_AUTH_RESULT, lastIn'.req, 0, 1, 0,
                                   "Invalid token"))
                 /\ dpc' = "cleanup") ]_vars

C2_Witness ==
    /\ authenticated
    /\ lastIn.op = OP_AUTH
    /\ lastIn.atype = 0
    /\ lastIn.data = <<"t", "k", "NUL">>
    /\ out = <<Frame(OP_AUTH_RESULT, lastIn.req, 0, 0, 0, "")>>

(***************************************************************************)
(* The session of a client that works with outbound TCP connections only,  *)
(* with the scheduling the runtime guarantees: every task that can run     *)
(* does run, and a connect attempt returns (at the latest by its 30-second *)
(* timeout).  Nothing is assumed about the remote peers or the client.     *)
(***************************************************************************)
InitWsTcp == InitWs /\ family = "tcp"

NextWsTcp ==
    \/ IgnoredFrame \/ BadVersionFrame \/ ClientHello \/ AuthFrame \/ UnauthOther
    \/ UnknownOpcode \/ WsClosed \/ Cleanup
    \/ TcpConnect \/ RegisterConnect \/ TcpSend \/ TcpSendResume \/ TcpClose
    \/ SendTask
    \/ \E k \in ConnectTasks : ConnectTaskStep(k) \/ ConnectResolve(k)
    \/ \E c \in Streams : StreamTaskStep(c)
    \/ \E c \in Streams : PeerData(c) \/ PeerEof(c) \/ WriteDrain(c) \/ WriteFail(c)

\* tokio's Mutex and mpsc channel hand the lock and the channel slots to
\* their waiters in FIFO order, so a task that waits for one is not starved
TaskFairness ==
    /\ WF_vars(SendTask)
    /\ WF_vars(Cleanup)
    /\ WF_vars(RegisterConnect)
    /\ SF_vars(TcpSendResume)
    /\ \A k \in ConnectTasks : SF_vars(ConnectTaskStep(k)) /\ WF_vars(ConnectResolve(k))
    /\ \A c \in Streams : SF_vars(StreamTaskStep(c))

SpecWsTcpFair == InitWsTcp /\ [][NextWsTcp]_vars /\ TaskFairness

(***************************************************************************)
(* C6 - C10: cancellation of connects, and what the end of a session       *)
(* leaves behind.                                                          *)
(***************************************************************************)
\* C6: once TCP_CLOSE(s) has aborted the connect task found in
\* pending_connects[s], that attempt emits no TCP_CONNECTED frame and does not
\* insert s into tcp_sockets.
C6_NothingAfterCancel ==
    [][\A k \in ConnectTasks :
          ct[k].aborted =>
              /\ ct'[k].emitted = ct[k].emitted
              /\ (tcp_sockets'[ct[k].sid] = k => tcp_sockets[ct[k].sid] = k)]_vars

\* the WebSocket is open: the receive loop has not ended, the sender is alive
SessionOpen == dpc \notin {"cleanup", "ended"} /\ rxOpen

\* C7: a connect attempt that is not cancelled by TCP_CLOSE, in a session that
\* stays open, eventually has its TCP_CONNECTED frame emitted.
C7_ConnectEventuallyAnswered ==
    \A k \in ConnectTasks :
        (ct[k].pc \in ConnectLive) ~>
            (ct[k].emitted = 1 \/ ct[k].aborted \/ ~SessionOpen)

\* C8: after the disconnect clean-up no connect task of the session is still
\* running.
C8_NoConnectTaskAfterCleanup ==
    dpc = "ended" => \A k \in ConnectTasks : ct[k].pc \notin ConnectLive

\* C9: after the disconnect clean-up every accept loop of the session has
\* been aborted, and no listen task is left that will start one.
C9_AcceptLoopsAbortedAtEnd ==
    dpc = "ended" =>
        \A j \in ListenTasks :
            /\ lt[j].pc \notin {"bind", "ok_send"}
            /\ lt[j].al \in AcceptLive => lt[j].aborted

\* no task of the session is left and every socket is closed
Quiescent ==
    /\ \A k \in ConnectTasks : ct[k].pc \notin ConnectLive
    /\ \A c \in Streams : conn[c].rd \in {"none", "closed", "done"} /\ conn[c].wr \in {"none", "done"}
    /\ \A j \in ListenTasks : lt[j].pc \notin ListenLive /\ lt[j].al \notin AcceptLive
    /\ \A u \in UdpTasks : ut[u].pc \notin UdpLive /\ ut[u].ur \in {"none", "closed", "done"}

\* C10: after the session has ended, its tasks terminate and its sockets
\* close, the remote peers doing nothing.
C10_QuiescentAfterEnd == (dpc = "ended") ~> Quiescent

(***************************************************************************)
(* Several WebSocket connections.  ws_handler runs handle_socket once per  *)
(* upgraded connection; every run makes its own channel, its own send_task *)
(* and its own SocketManager, and every task it spawns takes a clone of    *)
(* that run's `tx`.  A frame is followed here by the session whose task    *)
(* built it and the socket id it names.                                    *)
(***************************************************************************)
OnlySessions ==
    /\ UNCHANGED httpVars
    /\ UNCHANGED <<authenticated, dpc, darg, lastIn, out, rxOpen, tcp_sockets,
                   pending_connects, tcp_servers, udp_sockets, next_socket_id,
                   ct, conn, lt, ut, family, swap, disk, host, hashing>>

\* variant: one channel shared by the whole process
TxShared(s) == 1
\* the channel a task of session s sends on: the clone of its own session's tx
TxOf(s) == s

\* ws_handler: on_upgrade runs handle_socket, which sets up channel and send_task
Upgrade(s) ==
    /\ sessions[s].st = "idle"
    /\ sessions' = [sessions EXCEPT ![s].st = "open"]
    /\ OnlySessions

\* a request of session s (TCP_CONNECT, TCP_LISTEN, UDP_BIND) spawns the task of socket id
SessionSpawn(s, id) ==
    /\ sessions[s].st = "open"
    /\ id \notin sessions[s].socks
    /\ sessions' = [sessions EXCEPT ![s].socks = @ \cup {id}]
    /\ OnlySessions

\* a task of session s sends a frame for its socket: enqueued while the receiver
\* lives (waiting for room), an error that ends the task once the receiver is gone
SessionTaskSend(s, id) ==
    /\ id \in sessions[s].socks
    /\ IF sessions[TxOf(s)].st = "open"
         THEN /\ Len(sessions[TxOf(s)].chan) < OutCap
              /\ sessions' = [sessions EXCEPT ![TxOf(s)].chan =
                                 Append(@, [owner |-> s, id |-> id])]
         ELSE sessions' = [sessions EXCEPT ![s].socks = @ \ {id}]
    /\ OnlySessions

\* send_task of session s writes the next frame to its own WebSocket
SessionSenderWrite(s) ==
    /\ sessions[s].st = "open"
    /\ sessions[s].chan # << >>
    /\ sessions' = [sessions EXCEPT
                      ![s].chan = Tail(@),
                      ![s].wire = IF Len(@) < MaxWire
                                    THEN Append(@, Head(sessions[s].chan)) ELSE @]
    /\ OnlySessions

\* the receive loop of session s ends: send_task is aborted and rx dropped with
\* whatever it holds; the socket tasks are left running
SessionEnd(s) ==
    /\ sessions[s].st = "open"
    /\ sessions' = [sessions EXCEPT ![s].st = "ended", ![s].chan = << >>]
    /\ OnlySessions

InitSessions ==
    /\ windows = FALSE
    /\ roots = << >>
    /\ fileOp = NoFileOp
    /\ mw = NoMw
    /\ procAlive = TRUE
    /\ handled = 0
    /\ rpcFile = NoRpcFile
    /\ WsIdle
    /\ swap = NoSwap
    /\ disk = NoDisk
    /\ host = NoHost
    /\ hashing = NoHashing

NextSessions ==
    \E s \in 1..MaxSessions :
        \/ Upgrade(s)
        \/ \E id \in TcpIds : SessionSpawn(s, id) \/ SessionTaskSend(s, id)
        \/ SessionSenderWrite(s)
        \/ SessionEnd(s)

SpecSessions == InitSessions /\ [][NextSessions]_vars

\* C11: the frames of a session's tasks are only ever enqueued on that
\* session's own channel and written to its own WebSocket; once a session has
\* ended nothing more is enqueued or written for it, and no connection ever
\* carries a frame built by a task of another session.
C11_FramesStayInTheirSession ==
    [][\A s \in 1..MaxSessions :
          /\ \A i \in 1..Len(sessions'[s].chan) : sessions'[s].chan[i].owner = s
          /\ \A i \in 1..Len(sessions'[s].wire) : sessions'[s].wire[i].owner = s
          /\ sessions[s].st = "ended" =>
                /\ sessions'[s].chan = << >>
                /\ sessions'[s].wire = sessions[s].wire]_vars

\* a session has ended with a socket task still running, while another session
\* received a frame for the same socket id from its own task
C11_Witness ==
    \E s, t \in 1..MaxSessions :
        /\ s # t
        /\ sessions[s].st = "ended"
        /\ \E id \in sessions[s].socks :
              /\ sessions[t].wire # << >>
              /\ sessions[t].wire[1].id = id

(***************************************************************************)
(* Close events, socket ids and registry entries                           *)
(***************************************************************************)
\* C12: within a session the server emits at most one TCP_CLOSE or UDP_CLOSE
\* frame for any socket id: no two read tasks (or recv loops) that carry the
\* same socket id have both enqueued their close frame.
C12_AtMostOneClosePerId ==
    /\ \A c, d \in Streams :
          c # d /\ conn[c].rd = "closed" /\ conn[d].rd = "closed"
             => conn[c].sid # conn[d].sid
    /\ \A u, v \in UdpTasks :
          u # v /\ ut[u].ur = "closed" /\ ut[v].ur = "closed"
             => ut[u].sid # ut[v].sid

\* the frame a step enqueues on the outbound channel, if it enqueues one
Enqueues(f) == rxOpen /\ out' = Append(out, f)

\* C13: every accepted connection is announced by one TCP_ACCEPT frame that
\* precedes every TCP_RECV and TCP_CLOSE frame for its socket id: when the
\* accept loop enqueues TCP_ACCEPT for the id it allocated, no read task has
\* yet enqueued a TCP_CLOSE for that id.
C13_AcceptPrecedesSocketFrames ==
    [][\A j \in ListenTasks :
          /\ lt[j].al = "send_accept"
          /\ Enqueues(Frame(OP_TCP_ACCEPT, 0, lt[j].cur, 0, 0, ""))
          => \A c \in Streams : conn[c].sid = lt[j].cur => conn[c].rd # "closed"]_vars

\* a stream whose read task or write task still runs
StreamLive(c) ==
    c # 0 /\ (conn[c].rd \in {"read", "send_recv", "send_close"} \/ conn[c].wr = "run")

\* C14: each socket id names at most one live socket: no insertion into the
\* registry replaces an entry whose socket or task is still live, and the id
\* an accept loop allocates is not an id the client chose that is in use.
C14_OneLiveSocketPerId ==
    [][/\ \A s \in SocketIds :
             /\ tcp_sockets'[s] \notin {0, tcp_sockets[s]} => ~StreamLive(tcp_sockets[s])
             /\ pending_connects'[s] \notin {0, pending_connects[s]}
                   => pending_connects[s] = 0
                      \/ ct[pending_connects[s]].pc \notin ConnectLive
       /\ \A s \in ServerIds :
             tcp_servers'[s] \notin {0, tcp_servers[s]}
                => tcp_servers[s] = 0 \/ lt[tcp_servers[s]].al \notin AcceptLive
       /\ \A s \in UdpIds :
             udp_sockets'[s] \notin {0, udp_sockets[s]}
                => udp_sockets[s] = 0 \/ ut[udp_sockets[s]].ur \notin {"recv", "send_recv"}
       /\ next_socket_id' # next_socket_id
             => tcp_sockets[next_socket_id] = 0 /\ pending_connects[next_socket_id] = 0]_vars

(***************************************************************************)
(* The bytes of a stream                                                   *)
(***************************************************************************)
\* C15: for an established TCP socket, the payloads of the TCP_SEND frames
\* taken for it are written to the stream in the order the frames arrived,
\* each one whole, none lost and none twice, while the socket's write task
\* lives: what was taken is what was written, then what waits in the write
\* channel, then the payload the receive loop still holds.
C15_SendsWrittenInOrder ==
    family = "stream" =>
        \A c \in Streams :
            conn[c].wr # "done" =>
                conn[c].sent =
                    conn[c].wrote \o conn[c].wq
                        \o (IF conn[c].pend # "" THEN <<conn[c].pend>> ELSE << >>)

\* two different payloads have been written and the write task still runs
C15_Witness ==
    \E c \in Streams :
        /\ Len(conn[c].wrote) = 2
        /\ conn[c].wrote[1] # conn[c].wrote[2]
        /\ conn[c].wr = "run"

\* C16: while the session is open, the payloads of the TCP_RECV frames
\* enqueued for a TCP socket, in order, are the chunks read from its stream
\* so far, up to the chunk the read task is about to send: nothing lost,
\* nothing twice, nothing out of order.
C16_RecvFramesCarryTheBytesRead ==
    family = "stream" /\ rxOpen =>
        \A c \in Streams :
            conn[c].got =
                conn[c].fwd \o (IF conn[c].rd = "send_recv" THEN <<conn[c].buf>> ELSE << >>)

\* two different chunks were read and both forwarded
C16_Witness ==
    /\ rxOpen
    /\ \E c \in Streams :
          /\ Len(conn[c].fwd) = 2
          /\ conn[c].fwd[1] # conn[c].fwd[2]
          /\ conn[c].got = conn[c].fwd

(***************************************************************************)
(* Back-pressure                                                           *)
(***************************************************************************)
\* C17: the outbound channel never holds more frames than its capacity and a
\* write channel never more payloads than its capacity; a producer that finds
\* its channel full waits, so while the receiver lives a frame leaves the
\* outbound channel only at its head, a read task or recv loop gets past a
\* send only by enqueuing its frame, and a TCP_SEND that waited puts its
\* payload into the queue of a write task that is still there.
C17_BoundedChannelsBlock ==
    [][/\ Len(out') <= OutCap
       /\ \A c \in Streams : Len(conn'[c].wq) <= WqCap
       /\ rxOpen' =>
             \/ out' = out
             \/ out # << >> /\ out' = Tail(out)
             \/ Len(out') = Len(out) + 1 /\ SubSeq(out', 1, Len(out)) = out
       /\ \A c \in Streams :
             /\ rxOpen /\ conn[c].rd \in {"send_recv", "send_close"}
                       /\ conn'[c].rd # conn[c].rd
                => Len(out') = Len(out) + 1
             /\ dpc = "tcp_send" /\ darg = c /\ dpc' # "tcp_send" /\ conn[c].wr # "done"
                => conn'[c].wq = Append(conn[c].wq, conn[c].pend)
       /\ \A u \in UdpTasks :
             rxOpen /\ ut[u].ur \in {"send_recv", "send_close"} /\ ut'[u].ur # ut[u].ur
                => Len(out') = Len(out) + 1]_vars

\* both channels are full with a producer waiting at each: a read task holds a
\* chunk for the full outbound channel, the receive loop a payload for a full
\* write channel
C17_Witness ==
    /\ rxOpen /\ Len(out) = OutCap
    /\ dpc = "tcp_send"
    /\ Len(conn[darg].wq) = WqCap
    /\ \E c \in Streams : conn[c].rd = "send_recv"

(***************************************************************************)
(* Closing listeners and sockets                                           *)
(***************************************************************************)
\* C18: once TCP_STOP_LISTEN has been processed for a listener (its accept
\* loop aborted, its tcp_servers entry removed), no further TCP_ACCEPT for
\* that server id is emitted.
C18_NoAcceptAfterStopListen ==
    [][\A j \in ListenTasks :
          lt[j].aborted /\ lt[j].al = "send_accept"
             => ~Enqueues(Frame(OP_TCP_ACCEPT, 0, lt[j].cur, 0, 0, ""))]_vars

\* C19: once the client's UDP_CLOSE(s) has been processed, s is absent from
\* udp_sockets, the recv loop of the socket bound under s has stopped and no
\* further UDP_RECV frame for s is emitted.
C19_NoRecvAfterUdpClose ==
    [][\A u \in UdpTasks :
          ut[u].pc = "done" /\ udp_sockets[ut[u].sid] = 0
             => ~Enqueues(Frame(OP_UDP_RECV, 0, ut[u].sid, 0, 0, ""))]_vars

\* C20: when a read or a write on an established TCP socket fails, the
\* server has emitted the socket's TCP_CLOSE, the id is gone from tcp_sockets
\* and both of its tasks have stopped: a read task that ended with its
\* TCP_CLOSE leaves no registry entry and no write task behind.
C20_ErrorDropsSocket ==
    \A c \in Streams :
        conn[c].rd = "closed" =>
            /\ \A s \in SocketIds : tcp_sockets[s] # c
            /\ conn[c].wr = "done"

(***************************************************************************)
(* Terminal responses                                                      *)
(***************************************************************************)
\* a response after which the receive loop breaks
TerminalFrame(f) ==
    \/ f.op = OP_ERROR /\ f.msg \in {"Invalid protocol version", "Empty auth payload",
                                     "Unknown auth type", "Authentication required"}
    \/ f.op = OP_AUTH_RESULT /\ f.st # 0

\* C21: when the receive loop ends a session after enqueuing a terminal
\* response, that frame is written to the WebSocket before the sender task is
\* aborted: at the abort no terminal response is left in the channel.
C21_TerminalFrameWrittenBeforeAbort ==
    [][dpc = "cleanup" /\ dpc' = "ended"
          => \A i \in 1..Len(out) : ~TerminalFrame(out[i])]_vars

\* C22: in an authenticated session a frame whose opcode is no client request
\* is answered with ERROR carrying its request id, and the session is ended.
C22_UnknownOpcodeEndsSession ==
    [][\A r \in ReqIds :
          authenticated /\ Enqueues(Frame(OP_ERROR, r, 0, 0, 0, "Unknown opcode"))
             => dpc' \in {"cleanup", "ended"}]_vars

(***************************************************************************)
(* What validate_path returns                                              *)
(***************************************************************************)
\* C23: for a root key present in the roots table and a path none of whose
\* components is "..", validate_path succeeds and returns the root's path
\* joined with the path after converting backslashes to forward slashes and
\* stripping leading slashes.
C23_PathWithoutDotDotResolves ==
    LET comps == SplitOn(ReplaceBackslash(fileOp.path), FALSE, << >>)
    IN  /\ fileOp.ep # "none" /\ fileOp.hdr = "ok"
        /\ KeyPresent(fileOp.key)
        /\ \A i \in 1..Len(comps) : comps[i] # <<".", ".">>
        => /\ fileOp.fs
           /\ \E i \in 1..Len(roots) :
                 /\ roots[i].key = fileOp.key
                 /\ fileOp.full = roots[i].path \o <<"/">> \o CleanPath(fileOp.path)

(***************************************************************************)
(* A config reload next to a file operation.  refresh_handler loads the    *)
(* new table without the lock, then replaces the Vec under the write lock; *)
(* validate_path holds the read lock from the lookup to its return.  The   *)
(* replacement of the Vec is not one memory operation: while it is under   *)
(* way the memory holds entries made of parts of the old and new table.    *)
(***************************************************************************)
\* what memory may hold while the Vec is being replaced
TornTables(old, new) ==
    { << [key |-> k, path |-> p] >> :
         k \in {old[i].key : i \in 1..Len(old)} \cup {new[i].key : i \in 1..Len(new)},
         p \in {old[i].path : i \in 1..Len(old)} \cup {new[i].path : i \in 1..Len(new)} }
      \cup {<< >>}

\* variant: a read lock that does not wait for the writer
ReadLockAlwaysFree == TRUE
\* RwLock::read() can be taken: no writer holds the lock
ReadLockFree == swap.lock # "write"
\* RwLock::write() can be taken: nobody holds the lock
WriteLockFree == swap.lock = "free"

ReloadUnchanged == UNCHANGED <<windows, mw, procAlive, handled, rpcFile>> /\ UNCHANGED
    <<authenticated, dpc, darg, lastIn, out, rxOpen, tcp_sockets, pending_connects,
      tcp_servers, udp_sockets, next_socket_id, ct, conn, lt, ut, family, sessions, disk, host, hashing>>

\* refresh_handler: load_config, before any lock is taken
ReloadLoad ==
    /\ swap.rpc = "idle"
    /\ LET r == load_config(rpcFile, InstallId)
       IN  swap' = IF r.ok THEN [swap EXCEPT !.rpc = "loaded", !.new = r.path]
                   ELSE [swap EXCEPT !.rpc = "failed"]
    /\ UNCHANGED <<roots, fileOp>> /\ ReloadUnchanged

\* state.download_roots.write().unwrap()
ReloadLock ==
    /\ swap.rpc = "loaded"
    /\ WriteLockFree
    /\ swap' = [swap EXCEPT !.rpc = "write", !.lock = "write"]
    /\ UNCHANGED <<roots, fileOp>> /\ ReloadUnchanged

\* *roots_guard = roots, under way
ReloadAssign ==
    /\ swap.rpc = "write"
    /\ roots' \in TornTables(swap.old, swap.new)
    /\ swap' = [swap EXCEPT !.rpc = "assign"]
    /\ UNCHANGED fileOp /\ ReloadUnchanged

\* the assignment is complete, the guard is dropped
ReloadUnlock ==
    /\ swap.rpc = "assign"
    /\ roots' = swap.new
    /\ swap' = [swap EXCEPT !.rpc = "done", !.lock = "free"]
    /\ UNCHANGED fileOp /\ ReloadUnchanged

\* a file or hash handler calls validate_path: download_roots.read()
FileOpLock ==
    /\ swap.fpc = "idle"
    /\ ReadLockFree
    /\ \E k \in RootKeys, p \in Paths :
          swap' = [swap EXCEPT !.fpc = "lookup", !.key = k, !.path = p,
                               !.lock = IF @ = "free" THEN "read" ELSE @]
    /\ UNCHANGED <<roots, fileOp>> /\ ReloadUnchanged

\* the lookup and the join under the read guard, which is dropped at the return
FileOpLookup ==
    /\ swap.fpc = "lookup"
    /\ \E ep \in HeaderPathEndpoints \cup PlainPathEndpoints :
          fileOp' = HandleWithPath(ep, swap.key, "ok", swap.path, 200)
    /\ swap' = [swap EXCEPT !.fpc = "done", !.lock = IF @ = "read" THEN "free" ELSE @]
    /\ UNCHANGED roots /\ ReloadUnchanged

InitReload ==
    /\ windows = FALSE
    /\ roots \in RootTables(windows)
    /\ fileOp = NoFileOp
    /\ mw = NoMw
    /\ procAlive = TRUE
    /\ handled = 0
    /\ rpcFile \in RpcFiles(windows)
    /\ WsIdle
    /\ swap = [NoSwap EXCEPT !.old = roots]
    /\ disk = NoDisk
    /\ host = NoHost
    /\ hashing = NoHashing

NextReload ==
    \/ ReloadLoad \/ ReloadLock \/ ReloadAssign \/ ReloadUnlock
    \/ FileOpLock \/ FileOpLookup

SpecReload == InitReload /\ [][NextReload]_vars

\* C24: a file or hash operation that runs next to a config reload resolves
\* its root key against the complete table from before the reload or the
\* complete table from after it, never against a mixture; its lookup ends in
\* success, 403 or 400, never in 500.
C24_LookupSeesOldOrNewTable ==
    swap.fpc = "done" =>
        /\ \E t \in {swap.old, swap.new} :
              LET v == validate_path(t, fileOp.key, fileOp.path, windows)
              IN  /\ fileOp.fs = v.ok
                  /\ fileOp.full = v.path
                  /\ fileOp.status = IF v.ok THEN 200 ELSE v.status
        /\ fileOp.status \in {200, 400, 403}

\* the reload replaced {A} by {B}; a lookup of key A that came after it was
\* refused with 403
C24_Witness ==
    /\ swap.rpc = "done" /\ swap.fpc = "done"
    /\ \E i \in 1..Len(swap.old) : swap.old[i].key = "A"
    /\ \A i \in 1..Len(swap.new) : swap.new[i].key # "A"
    /\ fileOp.key = "A" /\ fileOp.status = 403

(***************************************************************************)
(* files.rs: POST /write and GET /read on one file beneath a root.  The    *)
(* path has passed validate_path.  tokio::fs::File::write_all hands the    *)
(* bytes to the blocking pool and returns; the write itself runs there and *)
(* only a later operation on the File, or flush, would wait for it and     *)
(* see its error.  write_file_v2 does neither.                             *)
(***************************************************************************)
BodyBytes == {"p", "q"}
Bodies == SeqsUpTo(BodyBytes, MaxBody)
InitialFiles == SeqsUpTo({"o"}, MaxBody)

\* hex::encode(Sha1::digest(body)): a lowercase hex string, one per body
Sha1Hex(body) == [hex |-> "lower", of |-> body]
\* the X-Expected-SHA1 values a client may send: absent, the digest in lower
\* or upper case, the digest of another body, bytes to_str refuses
NoHeader == [hex |-> "absent", of |-> << >>]
NotAString == [hex |-> "opaque", of |-> << >>]
ExpectedHeaders(body) ==
    {NoHeader, NotAString, Sha1Hex(body), [hex |-> "upper", of |-> body]}
        \cup {Sha1Hex(b) : b \in Bodies \ {body}}

\* the file after `body` is written at `off`: no truncation, a gap reads as
\* zeros; a seek past the end followed by no byte leaves the length alone
WriteAt(file, off, body) ==
    LET end == IF body = << >> THEN 0 ELSE off + Len(body)
        n == IF Len(file) > end THEN Len(file) ELSE end
    IN  [i \in 1..n |->
            IF i > off /\ i <= off + Len(body) THEN body[i - off]
            ELSE IF i <= Len(file) THEN file[i] ELSE "z"]

\* open(write, create), seek, write_all: the file exists, the bytes are on
\* their way in the blocking pool
WriteAll(d, off, body) ==
    [d EXCEPT !.exists = TRUE, !.bg = IF body = << >> THEN "applied" ELSE "pending"]

\* the optional hash verification that follows write_all
VerifySha1(hdr, body) ==
    IF hdr = NoHeader THEN 200
    ELSE IF hdr = NotAString THEN 400
    ELSE IF Sha1Hex(body) # hdr THEN 409
    ELSE 200

FileUnchanged == UNCHANGED <<windows, roots, fileOp, mw, procAlive, handled, rpcFile>>
    /\ UNCHANGED <<authenticated, dpc, darg, lastIn, out, rxOpen, tcp_sockets,
                   pending_connects, tcp_servers, udp_sockets, next_socket_id,
                   ct, conn, lt, ut, family, sessions, swap, host, hashing>>

\* write_file_v2, from the request to the response
WriteRequest ==
    /\ disk.w.pc = "idle"
    /\ \E off \in 0..MaxOff, body \in Bodies :
        \E hdr \in ExpectedHeaders(body) :
          disk' = [WriteAll(disk, off, body) EXCEPT
                      !.w = [pc |-> "done", off |-> off, body |-> body, hdr |-> hdr,
                             status |-> VerifySha1(hdr, body)]]
    /\ FileUnchanged

\* the blocking pool runs the write
BlockingWriteDone ==
    /\ disk.bg = "pending"
    /\ disk' = [disk EXCEPT !.file = WriteAt(disk.file, disk.w.off, disk.w.body),
                            !.bg = "applied"]
    /\ FileUnchanged

\* the write fails in the blocking pool (disk full, I/O error); nobody asks
BlockingWriteFail ==
    /\ disk.bg = "pending"
    /\ disk' = [disk EXCEPT !.bg = "failed"]
    /\ FileUnchanged

\* read_file_v2: open, seek to X-Offset, read_exact(X-Length) or read_to_end
ReadRequest ==
    /\ disk.r.pc = "idle"
    /\ \E off \in -1..(MaxOff + MaxBody), len \in -1..MaxBody :
        LET from == IF off = -1 THEN 0 ELSE off
            rest == IF from >= Len(disk.file) THEN << >>
                    ELSE SubSeq(disk.file, from + 1, Len(disk.file))
            res  == IF ~disk.exists THEN [status |-> 404, data |-> << >>]
                    ELSE IF len = -1 THEN [status |-> 200, data |-> rest]
                    ELSE IF len > Len(rest) THEN [status |-> 500, data |-> << >>]
                    ELSE [status |-> 200, data |-> SubSeq(rest, 1, len)]
        IN  disk' = [disk EXCEPT !.r = [pc |-> "done", off |-> off, len |-> len,
                                       status |-> res.status, data |-> res.data,
                                       after |-> disk.w.pc = "done" /\ disk.w.status = 200]]
    /\ FileUnchanged

InitFile ==
    /\ windows = FALSE
    /\ roots = << [key |-> "A", path |-> RootPath(FALSE, "r")] >>
    /\ fileOp = NoFileOp
    /\ mw = NoMw
    /\ procAlive = TRUE
    /\ handled = 0
    /\ rpcFile = NoRpcFile
    /\ WsIdle
    /\ swap = NoSwap
    /\ \E f \in InitialFiles, e \in BOOLEAN :
          /\ ~e => f = << >>
          /\ disk = [NoDisk EXCEPT !.exists = e, !.file = f, !.init = f]
    /\ host = NoHost
    /\ hashing = NoHashing

NextFile == WriteRequest \/ BlockingWriteDone \/ BlockingWriteFail \/ ReadRequest

SpecFile == InitFile /\ [][NextFile]_vars

\* C25: POST /write with X-Expected-SHA1 equal to the lowercase hex SHA-1 of
\* the body returns success and the file holds the body at [offset,
\* offset + len); with any other value it returns 409 and the body has been
\* written to that range all the same.
C25_WriteThenVerify ==
    disk.w.pc = "done" /\ disk.w.hdr.hex # "absent" =>
        /\ disk.w.status = IF disk.w.hdr = Sha1Hex(disk.w.body) THEN 200 ELSE 409
        /\ Len(disk.file) >= disk.w.off + Len(disk.w.body)
        /\ SubSeq(disk.file, disk.w.off + 1, disk.w.off + Len(disk.w.body)) = disk.w.body

\* C26: after a successful POST /write of body b at offset o, a GET /read
\* with X-Offset o' and X-Length n inside the file returns the file's bytes
\* in [o', o' + n): those of b inside [o, o + len(b)), the previous ones
\* outside, the write having truncated nothing.
C26_ReadReturnsWhatWasWritten ==
    LET expect == WriteAt(disk.init, disk.w.off, disk.w.body)
    IN  /\ disk.r.pc = "done" /\ disk.r.after
        /\ disk.r.off >= 0 /\ disk.r.len >= 0
        /\ disk.r.off + disk.r.len <= Len(expect)
        => /\ disk.r.status = 200
           /\ disk.r.data = SubSeq(expect, disk.r.off + 1, disk.r.off + disk.r.len)

(***************************************************************************)
(* system-bridge/host/src/rpc.rs: write_discovery_file.  Every native      *)
(* messaging host process (one per browser profile that runs the           *)
(* extension) rewrites the shared rpc-info.json: at startup with its PID   *)
(* and no install id, at the handshake with the install id, and whenever   *)
(* its download roots change.  Port, token, timestamps and browser binary  *)
(* are copied through and left out.  The field set_to of an entry is       *)
(* history: the roots the last Some(v) call stored in it.                  *)
(***************************************************************************)
Pids == 1..MaxPid
\* ids are strings, held as one-symbol sequences
Installs == {<<"I1">>, <<"I2">>}
ExtensionIds == {<<"e1">>, <<"e2">>}
\* the extension of each installation, one browser apiece
ExtensionOf(inst) == IF inst = <<"I1">> THEN <<"e1">> ELSE <<"e2">>
RootLists == {<< >>, <<"d1">>}

FirstIn(S) == IF S = {} THEN 0 ELSE CHOOSE i \in S : \A j \in S : i <= j

\* profiles.iter().position(|p| p.install_id.as_ref() == Some(iid))
FindByInstallId(ps, info) ==
    IF info.install_id.some
    THEN FirstIn({i \in 1..Len(ps) : ps[i].install_id = info.install_id})
    ELSE 0

\* position of the first entry with this PID whose extension id does not
\* contradict the caller's
FindByPid(ps, info) ==
    FirstIn({i \in 1..Len(ps) :
                /\ ps[i].pid = info.pid
                /\ ~(/\ ps[i].extension_id.some /\ info.extension_id.some
                     /\ ps[i].extension_id # info.extension_id)})

FindEntry(ps, info) ==
    IF FindByInstallId(ps, info) # 0 THEN FindByInstallId(ps, info)
    ELSE FindByPid(ps, info)

\* variant: the roots of the call replace the stored ones, absent meaning none
RootsReplaced(stored, given) == IF given.some THEN given.v ELSE << >>
\* if let Some(roots) = &info.download_roots { entry.download_roots = roots.clone() }
RootsKept(stored, given) == IF given.some THEN given.v ELSE stored

UpdateEntry(e, info) ==
    [e EXCEPT !.pid = info.pid,
              !.extension_id = info.extension_id,
              !.install_id = IF info.install_id.some THEN info.install_id ELSE @,
              !.download_roots = RootsKept(@, info.download_roots),
              !.set_to = IF info.download_roots.some THEN info.download_roots ELSE @]

NewEntry(info) ==
    [pid |-> info.pid, extension_id |-> info.extension_id,
     install_id |-> info.install_id,
     download_roots |-> IF info.download_roots.some THEN info.download_roots.v ELSE << >>,
     set_to |-> info.download_roots]

\* variant: no entry is removed
RetainAll(ps, info) == ps

\* profiles.retain: the temporary entries of this PID go once the caller has
\* an install id
RetainOthers(ps, info) ==
    LET keep(p) == ~(p.pid = info.pid /\ ~p.install_id.some)
    IN  IF info.install_id.some THEN SelectSeq(ps, keep) ELSE ps

\* the profiles written back and the roots returned
write_discovery_file(ps, info) ==
    LET idx == FindEntry(ps, info)
    IN  IF idx # 0
        THEN LET entry == UpdateEntry(ps[idx], info)
             IN  [profiles |-> RetainOthers([ps EXCEPT ![idx] = entry], info),
                  active_roots |-> entry.download_roots]
        ELSE [profiles |-> Append(ps, NewEntry(info)),
              active_roots |-> NewEntry(info).download_roots]

HostUnchanged == UNCHANGED <<windows, roots, fileOp, mw, procAlive, handled>>
    /\ UNCHANGED <<authenticated, dpc, darg, lastIn, out, rxOpen, tcp_sockets,
                   pending_connects, tcp_servers, udp_sockets, next_socket_id,
                   ct, conn, lt, ut, family, sessions, swap, disk, hashing>>

\* one call of a host process, the file read and replaced
Call(procs, starts, info) ==
    LET res == write_discovery_file(rpcFile.profiles, info)
    IN  /\ Len(res.profiles) <= MaxProfiles
        /\ rpcFile' = [state |-> "ok", profiles |-> res.profiles]
        /\ host' = [host EXCEPT
                      !.procs = procs,
                      !.starts = starts,
                      !.last = [kind |-> "call", pid |-> info.pid,
                                install_id |-> info.install_id,
                                download_roots |-> info.download_roots,
                                before |-> rpcFile.profiles,
                                found |-> FindEntry(rpcFile.profiles, info),
                                ret |-> res.active_roots]]
        /\ HostUnchanged

\* the browser starts a host: main writes its PID entry, install id and roots absent
HostStart ==
    \E pid \in Pids, inst \in Installs :
      \E ext \in {None, Some(ExtensionOf(inst))} :
        /\ host.starts < MaxStarts
        /\ host.procs[pid] = NotRunning
        /\ \A q \in Pids : host.procs[q].inst # inst
        /\ Call([host.procs EXCEPT ![pid] = [inst |-> inst, ext |-> ext, shaken |-> FALSE]],
                host.starts + 1,
                [pid |-> pid, install_id |-> None, extension_id |-> ext,
                 download_roots |-> None])

\* Operation::Handshake: extension id and install id known, roots absent
HostHandshake ==
    \E pid \in Pids :
        /\ host.procs[pid] # NotRunning
        /\ Call([host.procs EXCEPT ![pid].ext = Some(ExtensionOf(host.procs[pid].inst)),
                                   ![pid].shaken = TRUE],
                host.starts,
                [pid |-> pid, install_id |-> Some(host.procs[pid].inst),
                 extension_id |-> Some(ExtensionOf(host.procs[pid].inst)),
                 download_roots |-> None])

\* a download root picked or removed: the whole list is written
HostSetRoots ==
    \E pid \in Pids, v \in RootLists :
        /\ host.procs[pid] # NotRunning
        /\ Call(host.procs, host.starts,
                [pid |-> pid,
                 install_id |-> IF host.procs[pid].shaken
                                THEN Some(host.procs[pid].inst) ELSE None,
                 extension_id |-> host.procs[pid].ext,
                 download_roots |-> Some(v)])

\* the host exits; its entry stays in the file, its PID is free again
HostExit ==
    \E pid \in Pids :
        /\ host.procs[pid] # NotRunning
        /\ host' = [host EXCEPT !.procs[pid] = NotRunning]
        /\ UNCHANGED rpcFile
        /\ HostUnchanged

InitDiscovery ==
    /\ windows = FALSE
    /\ roots = << >>
    /\ fileOp = NoFileOp
    /\ mw = NoMw
    /\ procAlive = TRUE
    /\ handled = 0
    /\ rpcFile = NoRpcFile
    /\ WsIdle
    /\ swap = NoSwap
    /\ disk = NoDisk
    /\ host = NoHost
    /\ hashing = NoHashing

NextDiscovery == HostStart \/ HostHandshake \/ HostSetRoots \/ HostExit

SpecDiscovery == InitDiscovery /\ [][NextDiscovery]_vars

\* the entry the last call wrote, in the file as it is now
EntryWritten ==
    LET ps == rpcFile.profiles
        l  == host.last
    IN  IF l.install_id.some
        THEN ps[FirstIn({i \in 1..Len(ps) : ps[i].install_id = l.install_id})]
        ELSE IF l.found # 0 THEN ps[l.found] ELSE ps[Len(ps)]

\* C27: write_discovery_file updates the entry matched by install_id, else
\* by PID.  Roots absent: the entry's stored roots are kept and returned,
\* also when the entry is the one of the install id and a fresh-PID entry
\* without install id was written after a restart.  Roots Some(v): the
\* stored roots become exactly v, empty or not, and v is returned; a later
\* call without roots that matches the entry returns v.
C27_RootsKeptUnlessGiven ==
    LET l == host.last
        old == l.before[l.found]
        byId == {i \in 1..Len(l.before) : l.before[i].install_id = l.install_id}
    IN  l.kind = "call" =>
          /\ l.found # 0 /\ ~l.download_roots.some =>
                /\ l.ret = old.download_roots
                /\ EntryWritten.download_roots = old.download_roots
                /\ old.set_to.some => l.ret = old.set_to.v
          /\ l.install_id.some /\ ~l.download_roots.some /\ byId # {} =>
                \A i \in byId : l.ret = l.before[i].download_roots
          /\ l.download_roots.some =>
                /\ l.ret = l.download_roots.v
                /\ EntryWritten.download_roots = l.download_roots.v

\* a handshake after a restart: the install id's entry carries another PID
\* and non-empty roots, the new PID has its own entry without install id
C27_Witness ==
    LET l == host.last
    IN  /\ l.kind = "call" /\ l.install_id.some /\ ~l.download_roots.some
        /\ l.found # 0
        /\ l.before[l.found].pid # l.pid
        /\ l.before[l.found].download_roots # << >>
        /\ \E i \in 1..Len(l.before) :
              /\ l.before[i].pid = l.pid /\ ~l.before[i].install_id.some
              /\ l.before[i].download_roots = << >>
        /\ l.ret = l.before[l.found].download_roots
        /\ \A i \in 1..Len(rpcFile.profiles) : rpcFile.profiles[i].install_id.some

(***************************************************************************)
(* system-bridge/host/src/ipc.rs: the native messaging framing, a 4-byte   *)
(* little-endian length followed by the JSON text.  A byte stream is a     *)
(* sequence of runs [byte, n] (n times the same byte), so that a body of   *)
(* ten megabytes is one element; the length prefix is four runs of one     *)
(* byte each, computed and decoded digit by digit.                         *)
(***************************************************************************)
MESSAGE_LIMIT == 10485760      \* 10 * 1024 * 1024

\* serializations by length and content: short ones, one at the limit, one past it
JsonLengths == {1, 2, MESSAGE_LIMIT, MESSAGE_LIMIT + 1}
JsonBytes == {65, 66}
Messages == [size : JsonLengths, fill : JsonBytes]

\* serde_json::to_vec(msg)
to_vec(m) == << [byte |-> m.fill, n |-> m.size] >>

\* WriteBytesExt::write_u32::<LittleEndian>
write_u32(n) ==
    << [byte |-> n % 256, n |-> 1],
       [byte |-> (n \div 256) % 256, n |-> 1],
       [byte |-> (n \div 65536) % 256, n |-> 1],
       [byte |-> (n \div 16777216) % 256, n |-> 1] >>

\* variant: the length read most significant byte first
read_u32_be(b) ==
    b[4].byte + 256 * b[3].byte + 65536 * b[2].byte + 16777216 * b[1].byte
\* ReadBytesExt::read_u32::<LittleEndian>
read_u32(b) ==
    b[1].byte + 256 * b[2].byte + 65536 * b[3].byte + 16777216 * b[4].byte

\* read_exact(k): k bytes off the front, or UnexpectedEof when the stream ends first
RECURSIVE read_exact(_, _)
read_exact(s, k) ==
    IF k = 0 THEN [ok |-> TRUE, data |-> << >>, rest |-> s]
    ELSE IF s = << >> THEN [ok |-> FALSE, data |-> << >>, rest |-> << >>]
    ELSE IF Head(s).n <= k
         THEN LET more == read_exact(Tail(s), k - Head(s).n)
              IN  [ok |-> more.ok, data |-> <<Head(s)>> \o more.data, rest |-> more.rest]
         ELSE [ok |-> TRUE, data |-> << [Head(s) EXCEPT !.n = k] >>,
               rest |-> << [Head(s) EXCEPT !.n = @ - k] >> \o Tail(s)]

ReadSome(data) == [r |-> "some", data |-> data]
ReadNone == [r |-> "none", data |-> << >>]
ReadErr == [r |-> "err", data |-> << >>]

\* read_message on a stream whose writer has closed or has enough bytes
read_message(s) ==
    LET head == read_exact(s, 4)
    IN  IF ~head.ok THEN [res |-> ReadNone, rest |-> << >>]
        ELSE IF read_u32(head.data) > MESSAGE_LIMIT
             THEN [res |-> ReadErr, rest |-> head.rest]
        ELSE LET body == read_exact(head.rest, read_u32(head.data))
             IN  IF ~body.ok THEN [res |-> ReadErr, rest |-> << >>]
                 ELSE [res |-> ReadSome(body.data), rest |-> body.rest]

\* the bytes write_message puts on the wire
write_message(m) == write_u32(m.size) \o to_vec(m)

IpcUnchanged == UNCHANGED <<windows, roots, fileOp, mw, procAlive, handled, rpcFile>>
    /\ UNCHANGED <<authenticated, dpc, darg, lastIn, out, rxOpen, tcp_sockets,
                   pending_connects, tcp_servers, udp_sockets, next_socket_id,
                   ct, conn, lt, ut, family, sessions, swap, disk, hashing>>

\* write_message: length, body, flush
WriteMessage ==
    /\ host.pipe.open
    /\ Len(host.pipe.sent) < MaxMsgs
    /\ \E m \in Messages :
          host' = [host EXCEPT !.pipe.bytes = @ \o write_message(m),
                               !.pipe.sent = Append(@, m)]
    /\ IpcUnchanged

\* the writer ends between two messages
CloseWriter ==
    /\ host.pipe.open
    /\ host' = [host EXCEPT !.pipe.open = FALSE]
    /\ IpcUnchanged

\* the writer is killed inside write_message: `keep` bytes of the message are out
KillWriter ==
    /\ host.pipe.open
    /\ \E m \in Messages, keep \in {2, 4, 5} :
          /\ keep < 4 + m.size
          /\ host' = [host EXCEPT
                        !.pipe.bytes = @ \o read_exact(write_message(m), keep).data,
                        !.pipe.open = FALSE, !.pipe.torn = TRUE]
    /\ IpcUnchanged

\* read_message, called by the main loop until it returns None or an error
ReadMessage ==
    /\ host.pipe.rd = "reading"
    /\ host.pipe.bytes # << >> \/ ~host.pipe.open
    /\ LET r == read_message(host.pipe.bytes)
       IN  host' = [host EXCEPT
                      !.pipe.bytes = r.rest,
                      !.pipe.got = Append(@, r.res),
                      !.pipe.rd = IF r.res.r = "some" THEN "reading"
                                  ELSE IF r.res.r = "none" THEN "eof" ELSE "failed"]
    /\ IpcUnchanged

InitIpc == InitDiscovery

NextIpc == WriteMessage \/ CloseWriter \/ KillWriter \/ ReadMessage

SpecIpc == InitIpc /\ [][NextIpc]_vars

WithinLimit(i) == \A j \in 1..i : host.pipe.sent[j].size <= MESSAGE_LIMIT

C29_PendingAndEstablishedDisjoint ==
    \A s \in SocketIds : ~(pending_connects[s] # 0 /\ tcp_sockets[s] # 0)

\* the connect task is past the point where it takes its id out of pending_connects
Reported(k) == ct[k].pc \in {"ok_send", "err_send", "done"}

\* C30: every id in pending_connects belongs to a connect task that has not
\* yet got its result in; once the connect has succeeded or failed the id is
\* out of pending_connects.
C30_PendingMeansUnfinished ==
    \A s \in SocketIds :
        pending_connects[s] # 0 =>
            /\ ct[pending_connects[s]].sid = s
            /\ ~Reported(pending_connects[s])

(***************************************************************************)
(* ws.rs: what the receive loop awaits while it holds the registry mutex.  *)
(***************************************************************************)
\* the await the holder of the registry mutex is suspended at, if any
AwaitUnderLock ==
    IF dpc = "tcp_send" THEN "channel"
    ELSE IF dpc = "udp_send" THEN "socket"
    ELSE "none"

\* C31: no task holds the socket-registry mutex while it awaits an I/O
\* operation on a socket; the only await under the mutex is a send on a
\* per-socket channel.
C31_NoSocketAwaitUnderLock == AwaitUnderLock # "socket"

\* C32: a TCP_SEND that waits on the full write queue of an established
\* socket does not hold up the cancellation of a pending connect: the
\* receive loop gets on to the TCP_CLOSE that follows, whether or not the
\* stalled peer ever takes data.
C32_SendDoesNotBlockCancel ==
    (/\ dpc = "tcp_send"
     /\ \E s \in SocketIds :
           /\ pending_connects[s] # 0 /\ tcp_sockets[s] = 0
           /\ ct[pending_connects[s]].pc = "connecting")
        ~> (dpc # "tcp_send")

(***************************************************************************)
(* ws.rs: TCP_CLOSE of an established socket.                              *)
(***************************************************************************)
\* s was closed by the client and is in nobody's hands since
ClosedId(s) == tcp_sockets[s] = 0 /\ \E c \in Streams : conn[c].shut /\ conn[c].sid = s

\* the session of a client with one outbound connection whose payloads are
\* followed; besides the runtime's scheduling, every write on the socket
\* returns: the peer takes the data or the connection breaks
InitWsStream == InitWs /\ family = "stream"

\* the write channel has room for all the payloads followed: no TCP_SEND waits
NextWsStream ==
    \/ IgnoredFrame \/ BadVersionFrame \/ ClientHello \/ AuthFrame \/ UnauthOther
    \/ UnknownOpcode \/ WsClosed \/ Cleanup
    \/ TcpConnect \/ RegisterConnect \/ TcpSend \/ TcpClose
    \/ SendTask
    \/ \E k \in ConnectTasks : ConnectTaskStep(k) \/ ConnectResolve(k)
    \/ \E c \in Streams : StreamTaskStep(c)
    \/ \E c \in Streams : PeerData(c) \/ PeerEof(c) \/ WriteDrain(c) \/ WriteFail(c)

SpecWsStreamFair ==
    /\ InitWsStream /\ [][NextWsStream]_vars /\ TaskFairness
    /\ \A c \in Streams : WF_vars(WriteDrain(c) \/ WriteFail(c))

StartsSocketTask ==
    \/ \E k \in ConnectTasks : ct[k].pc = "unused" /\ ct'[k].pc # "unused"
    \/ \E j \in ListenTasks : lt[j].pc = "unused" /\ lt'[j].pc # "unused"
    \/ \E u \in UdpTasks : ut[u].pc = "unused" /\ ut'[u].pc # "unused"

\* C34: once the sender task has stopped on a failed WebSocket write and the
\* receiver of the outbound channel is dropped, the receive loop dispatches
\* no further inbound frame: no socket is created any more.
C34_NoDispatchAfterSenderStops ==
    [][~rxOpen => ~StartsSocketTask]_vars

\* the accepted-socket ids handed out and still held by an accept loop or by an
\* accepted connection
HeldAcceptedIds ==
    {lt[j].cur : j \in {i \in ListenTasks : lt[i].cur # 0}}
        \cup {conn[c].sid : c \in {d \in Streams : d > MaxConnects /\ conn[d].sid # 0}}

\* C35: an accept loop takes its socket id from the session's counter, which
\* starts at 0x10000, and increments the counter in the same critical section:
\* the id is at least 0x10000 and greater than every accepted id handed out
\* before, whichever listener accepted it.
C35_AcceptedIdsDistinctIncreasing ==
    [][\A j \in ListenTasks :
          (lt[j].al = "alloc" /\ lt'[j].al = "send_accept") =>
              /\ lt'[j].cur = next_socket_id
              /\ lt'[j].cur >= FirstAcceptedId
              /\ next_socket_id' > lt'[j].cur
              /\ \A i \in HeldAcceptedIds : i < lt'[j].cur]_vars

\* two accept loops hold the ids of two connections accepted concurrently
C35_Witness ==
    \E i, j \in ListenTasks :
        /\ i # j
        /\ lt[i].cur = FirstAcceptedId
        /\ lt[j].cur = FirstAcceptedId + 1
        /\ lt[i].al = "send_accept" /\ lt[j].al = "send_accept"

(***************************************************************************)
(* hashing.rs: hash_sha1_file and hash_sha256_file.  The two handlers are  *)
(* the same code up to the hasher; the digest is a function of the bytes   *)
(* fed to the hasher, so the model records which bytes of the file those   *)
(* are.  The file does not change while it is hashed.  remaining is a u64: *)
(* [top |-> TRUE, v |-> d] stands for u64::MAX - d, [top |-> FALSE,        *)
(* v |-> n] for n; file offsets are below 2^63, so u64::MAX - d stays      *)
(* above the buffer length.                                                *)
(***************************************************************************)
BufferLen == 8192

Min(a, b) == IF a <= b THEN a ELSE b

\* the file sizes, offsets and lengths told apart: around one buffer, around
\* MaxChunks buffers, offsets and lengths inside and beyond the file
LongestFile == MaxChunks * BufferLen + ShortRead
FileSizes == {0, 1, BufferLen - 1, BufferLen, BufferLen + 1, MaxChunks * BufferLen,
              LongestFile}
Opt(S) == {[some |-> FALSE, v |-> 0]} \cup {[some |-> TRUE, v |-> x] : x \in S}
HashOffsets == Opt({0, 1, BufferLen, LongestFile + 1})
HashLengths == Opt({0, 1, BufferLen, BufferLen + 1, LongestFile + BufferLen})

\* params.length.unwrap_or(u64::MAX)
unwrap_or_MAX(length) ==
    IF length.some THEN [top |-> FALSE, v |-> length.v] ELSE [top |-> TRUE, v |-> 0]

\* while remaining > 0
Positive(r) == r.top \/ r.v # 0

\* the whole buffer asked for, whatever remains
WholeBuffer(r) == BufferLen

\* std::cmp::min(buffer.len() as u64, remaining)
to_read(r) == IF r.top THEN BufferLen ELSE Min(BufferLen, r.v)

\* remaining -= n as u64
Minus(r, n) == IF r.top THEN [r EXCEPT !.v = r.v + n] ELSE [r EXCEPT !.v = r.v - n]

HashUnchanged == UNCHANGED <<windows, roots, fileOp, mw, procAlive, handled, rpcFile>>
    /\ UNCHANGED <<authenticated, dpc, darg, lastIn, out, rxOpen, tcp_sockets,
                   pending_connects, tcp_servers, udp_sockets, next_socket_id,
                   ct, conn, lt, ut, family, sessions, swap, disk, host>>

\* File::open: 404 when it fails; seek to the offset when one is given (a
\* seek past the end of a file succeeds); 500 when the seek fails
HashOpen ==
    /\ hashing.st = "open"
    /\ \/ /\ ~hashing.exists
          /\ hashing' = [hashing EXCEPT !.st = "404"]
       \/ /\ hashing.exists
          /\ hashing' = [hashing EXCEPT
                !.st = "loop",
                !.pos = IF hashing.offset.some THEN hashing.offset.v ELSE 0,
                !.remaining = unwrap_or_MAX(hashing.length)]
       \/ /\ hashing.exists /\ hashing.offset.some
          /\ hashing' = [hashing EXCEPT !.st = "500"]
    /\ HashUnchanged

\* the bytes one read may return: what is asked and there, or fewer
ReadCounts(asked, there) ==
    LET m == Min(asked, there)
    IN  {m} \cup {n \in {ShortRead} : n < m}

\* one turn of the loop: file.read returns n bytes; n = 0 at the end of the
\* file or for an empty slice; the bytes read are fed to the hasher
HashRead ==
    /\ hashing.st = "loop"
    /\ Positive(hashing.remaining)
    /\ \E n \in ReadCounts(to_read(hashing.remaining),
                           IF hashing.pos < hashing.size
                           THEN hashing.size - hashing.pos ELSE 0) :
          hashing' =
            IF n = 0 THEN [hashing EXCEPT !.st = "ok"]
            ELSE [hashing EXCEPT
                    !.pos = hashing.pos + n,
                    !.first = IF hashing.count = 0 THEN hashing.pos ELSE hashing.first,
                    !.contiguous = hashing.contiguous
                        /\ (hashing.count = 0 \/ hashing.pos = hashing.first + hashing.count),
                    !.count = hashing.count + n,
                    !.maxn = IF n > hashing.maxn THEN n ELSE hashing.maxn,
                    !.remaining = Minus(hashing.remaining, n)]
    /\ HashUnchanged

\* file.read returns an error: 500
HashReadErr ==
    /\ hashing.st = "loop"
    /\ Positive(hashing.remaining)
    /\ hashing' = [hashing EXCEPT !.st = "500"]
    /\ HashUnchanged

\* remaining = 0: the loop ends, Ok(hex::encode(hasher.finalize()))
HashFinish ==
    /\ hashing.st = "loop"
    /\ ~Positive(hashing.remaining)
    /\ hashing' = [hashing EXCEPT !.st = "ok"]
    /\ HashUnchanged

InitHash ==
    /\ windows = FALSE
    /\ roots = << >>
    /\ fileOp = NoFileOp
    /\ mw = NoMw
    /\ procAlive = TRUE
    /\ handled = 0
    /\ rpcFile = NoRpcFile
    /\ WsIdle
    /\ swap = NoSwap
    /\ disk = NoDisk
    /\ host = NoHost
    /\ hashing \in {[NoHashing EXCEPT !.st = "open", !.exists = e, !.size = f,
                                       !.offset = o, !.length = l] :
                      e \in BOOLEAN, f \in FileSizes, o \in HashOffsets, l \in HashLengths}

NextHash == HashOpen \/ HashRead \/ HashReadErr \/ HashFinish

SpecHash == InitHash /\ [][NextHash]_vars

\* the handler is polled until it returns and every read of the file returns
SpecHashFair == SpecHash /\ WF_vars(NextHash)

\* the bytes of the file from the offset on
BytesFromOffset ==
    LET off == IF hashing.offset.some THEN hashing.offset.v ELSE 0
    IN  IF off < hashing.size THEN hashing.size - off ELSE 0

\* C36: the file-hash handlers feed the hasher exactly the min(length, fileSize -
\* offset) bytes that start at the offset, all bytes from the offset on when no
\* length is given, at most 8192 bytes per read; the remaining-byte counter
\* never goes below zero and the loop ends.
C36_HashesTheRange ==
    /\ [](/\ hashing.maxn <= BufferLen
          /\ hashing.contiguous
          /\ ~hashing.remaining.top => hashing.remaining.v >= 0
          /\ hashing.count > 0 =>
                hashing.first = (IF hashing.offset.some THEN hashing.offset.v ELSE 0)
          /\ hashing.st = "ok" =>
                hashing.count = IF hashing.length.some
                                THEN Min(hashing.length.v, BytesFromOffset)
                                ELSE BytesFromOffset)
    /\ <>(hashing.st \in {"ok", "404", "500"})

\* a range that takes several reads, a short one among them, hashed to the length
C36_Witness ==
    /\ hashing.st = "ok"
    /\ hashing.length.some /\ hashing.offset.some
    /\ hashing.offset.v > 0
    /\ hashing.count = BufferLen + 1
    /\ hashing.size > hashing.offset.v + hashing.count

\* the TCP_ACCEPT frame of the connection accept loop j holds has been written
\* to the WebSocket
AcceptAnnounced(j) ==
    /\ lt[j].al = "insert"
    /\ rxOpen
    /\ \A i \in 1..Len(out) : ~(out[i].op = OP_TCP_ACCEPT /\ out[i].id = lt[j].cur)

\* C37: once the TCP_ACCEPT frame for socket id s has gone out, s is in
\* tcp_sockets: a TCP_SEND for s that the receive loop takes then finds the
\* entry and is delivered.
C37_AnnouncedIdRegistered ==
    \A j \in ListenTasks :
        (AcceptAnnounced(j) /\ CanRecv /\ PastAuthGate) => tcp_sockets[lt[j].cur] # 0

\* rpc-info.json is missing or unparsable, or holds no profile of this daemon
NothingToLoad ==
    \/ rpcFile.state # "ok"
    \/ \A i \in 1..Len(rpcFile.profiles) : rpcFile.profiles[i].install_id # InstallId

InstallIdsUnique ==
    \A i, j \in 1..Len(rpcFile.profiles) :
        /\ i # j
        /\ rpcFile.profiles[i].install_id.some
        => rpcFile.profiles[i].install_id # rpcFile.profiles[j].install_id

\* the last call had an install id and left no entry of its PID without one
NoTemporaryEntryLeft ==
    host.last.kind = "call" /\ host.last.install_id.some =>
        \A i \in 1..Len(rpcFile.profiles) :
            rpcFile.profiles[i].pid = host.last.pid
                => rpcFile.profiles[i].install_id.some

C40_OtherInstallationsUntouched ==
    LET l == host.last
    IN  l.kind = "call" /\ l.install_id.some =>
          /\ l.found # 0 /\ l.before[l.found].install_id.some
                => l.before[l.found].install_id = l.install_id
          /\ \A i \in 1..Len(l.before) :
                l.before[i].install_id.some /\ l.before[i].install_id # l.install_id
                    => \E j \in 1..Len(rpcFile.profiles) :
                          rpcFile.profiles[j] = l.before[i]

====
